---- MODULE Spec2Model ----
(***************************************************************************)
(* CartLens: cart-state reconciliation and real-time broadcast pipeline.   *)
(*                                                                         *)
(* The store (CartSession and CartEvent tables with their unique indexes), *)
(* the four notification handlers (cart, checkout and order webhooks, the  *)
(* public pixel endpoint) and the SSE hub.  A handler is a sequence of     *)
(* awaited store operations; the single-threaded event loop runs the code  *)
(* between two awaits atomically, so there is one action per awaited store *)
(* operation together with the synchronous code that follows it.           *)
(*                                                                         *)
(* null / undefined ids and strings are NoId; a null number is 0 (every    *)
(* use in the handlers is a truthiness test or `|| 0`, under which null    *)
(* and 0 behave alike).                                                    *)
(***************************************************************************)
EXTENDS Integers, Sequences, FiniteSets, TLC

VARIABLES
  sessions,   \* CartSession table: sequence of rows, the row id is its index
  events,     \* CartEvent table: sequence of rows in creation order
  pc,         \* per request task: the await it is suspended on
  local,      \* per request task: the handler's local variables
  done,       \* log of finished notifications with their responses
  started,    \* number of notifications accepted so far
  clients,    \* SSEManager.clients: Map in insertion order
  open,       \* per connection: does controller.enqueue succeed
  received,   \* per connection: number of messages enqueued on it
  pubs,       \* log of broadcast calls: tenant, whether the call raised,
              \* the connections it sent to and those it removed
  conn,       \* per viewer request: where the SSE loader is, its response,
              \* request.signal.aborted, the abort listener, the keep-alive
  modules,    \* NODE_ENV, globalThis.__sseManager and the sseManager each
              \* importing module holds
  images      \* imageCache of webhooks.carts.tsx in insertion order, and the
              \* getProductImage calls in flight

vars == <<sessions, events, pc, local, done, started, clients, open, received,
          pubs, conn, modules, images>>
store == <<sessions, events>>
endpoint == <<conn, modules, images>>
hub == <<clients, open, received, pubs, conn, modules, images>>

----------------------------------------------------------------------------
(* Bounds of the model *)

NProcs == 2        \* concurrent request tasks
MaxNotifs == 3     \* notifications processed in one behaviour
MaxQty == 2        \* largest line-item quantity in a notification
MaxItems == 2      \* line items in one cart snapshot
MaxHist == 2       \* prior events in the history the differencer is tried on
MaxClients == 3    \* viewer connections in the hub model

Procs == 1..NProcs

NoId == ""
NoToken == ""
Shops == {"T1", "T2"}
Tokens == {"tok1"}
Variants == {"v1", "v2"}
DiffVariants == {"A", "B", "C"}
ClientIds == 1..MaxClients

ProductOf(v) == "p1"
UnitPrice == 10

----------------------------------------------------------------------------
(* Rows and payloads *)

\* ahead: the row's timestamp is a client timestamp ahead of the server
\* clock; rows the server stamps (new Date(), the column default) are not
\* variantImage: none when the row is created, the payload carrying no
\* image and the product lookup finding none
CartEventRow(sid, type, productId, variantId, quantity, price) ==
  [sessionId |-> sid, eventType |-> type, productId |-> productId,
   variantId |-> variantId, quantity |-> quantity, price |-> price,
   ahead |-> FALSE, variantImage |-> NoId]

CartSessionRow(shopId, visitorId) ==
  [shopId |-> shopId, visitorId |-> visitorId, customerId |-> NoId,
   cartCreated |-> FALSE, checkoutStarted |-> FALSE,
   checkoutAbandoned |-> FALSE, orderPlaced |-> FALSE,
   orderId |-> NoId, cartTotal |-> 0, itemCount |-> 0]

LineItem(v, q) ==
  [product_id |-> ProductOf(v), variant_id |-> v, quantity |-> q, price |-> UnitPrice]

LineItemsOf(vs) == {LineItem(v, q) : v \in vs, q \in 1..MaxQty}

\* line_items arrays of at most n items
SnapshotsOf(vs, n) == UNION {[1..k -> LineItemsOf(vs)] : k \in 0..n}

\* line_items arrays that hold every variant at most once
DistinctKeys(s) == \A i, j \in 1..Len(s) : s[i].variant_id = s[j].variant_id => i = j

Snapshots == {s : s \in SnapshotsOf(Variants, MaxItems)}
MapSnapshots == {s \in Snapshots : DistinctKeys(s)}

\* data: applies the fields of u to the row s, leaving the other fields alone
ApplyUpdate(s, u) == [f \in DOMAIN s |-> IF f \in DOMAIN u THEN u[f] ELSE s[f]]

RECURSIVE SeqSum(_)
SeqSum(s) == IF s = <<>> THEN 0 ELSE s[1] + SeqSum(Tail(s))

RECURSIVE Dedup(_)
Dedup(s) ==
  IF s = <<>> THEN <<>>
  ELSE LET r == Dedup(SubSeq(s, 1, Len(s) - 1))
           x == s[Len(s)]
       IN IF \E i \in 1..Len(r) : r[i] = x THEN r ELSE Append(r, x)

Max0(n) == IF n > 0 THEN n ELSE 0

----------------------------------------------------------------------------
(* Store operations *)

SessionIds == 1..Len(sessions)

\* a deleted row keeps its id (ids are never reused) and matches no lookup
DeletedRow == CartSessionRow(NoId, NoToken)

Exists(ss, sid) == sid \in 1..Len(ss) /\ ss[sid] /= DeletedRow

\* a CartEvent table without the foreign key to CartSession
NoForeignKey(ss, e) == FALSE

\* CartEvent_sessionId_fkey: an insert for a session that is gone is rejected
ForeignKeyViolation(ss, e) == ~Exists(ss, e.sessionId)

\* ON DELETE CASCADE of CartEvent_sessionId_fkey
CascadeDelete(evs, ids) == SelectSeq(evs, LAMBDA e : e.sessionId \notin ids)

\* rows matching (shopId, visitorId)
Matching(ss, shopId, token) ==
  {i \in 1..Len(ss) : ss[i].shopId = shopId /\ ss[i].visitorId = token}

\* a lookup that falls back to the oldest session when the token matches none
FindAnySession(ss, shopId, token) ==
  IF Matching(ss, shopId, token) = {} THEN (IF Len(ss) > 0 THEN 1 ELSE 0)
  ELSE CHOOSE i \in Matching(ss, shopId, token) :
         \A j \in Matching(ss, shopId, token) : i <= j

\* findUnique / findFirst by (shopId, visitorId): the row id, 0 for null
FindSession(ss, shopId, token) ==
  IF Matching(ss, shopId, token) = {} THEN 0
  ELSE CHOOSE i \in Matching(ss, shopId, token) :
         \A j \in Matching(ss, shopId, token) : i <= j

\* find-or-create without the unique key: a plain insert
InsertSession(ss, shopId, token, create, update) ==
  [rows |-> Append(ss, ApplyUpdate(CartSessionRow(shopId, token), create)),
   id |-> Len(ss) + 1]

\* cartSession.upsert on the unique key shopId_visitorId
UpsertSession(ss, shopId, token, create, update) ==
  LET id == FindSession(ss, shopId, token)
  IN IF id = 0
     THEN [rows |-> Append(ss, ApplyUpdate(CartSessionRow(shopId, token), create)),
           id |-> Len(ss) + 1]
     ELSE [rows |-> [ss EXCEPT ![id] = ApplyUpdate(ss[id], update)], id |-> id]

EventsOf(evs, sid) == SelectSeq(evs, LAMBDA e : e.sessionId = sid)

CountType(evs, sid, type) ==
  Cardinality({i \in 1..Len(evs) : evs[i].sessionId = sid /\ evs[i].eventType = type})

\* the CartEvent table without the partial unique index
MissingIndex(evs, e) == FALSE

\* partial unique index CartEvent_sessionId_checkout_started_key
UniqueViolation(evs, e) ==
  /\ e.eventType = "checkout_started"
  /\ CountType(evs, e.sessionId, "checkout_started") > 0

----------------------------------------------------------------------------
(* Snapshot differencer (webhooks.carts.tsx, the `else if (session)` branch) *)

EventKey(e) ==
  IF e.variantId /= NoId THEN e.variantId
  ELSE IF e.productId /= NoId THEN e.productId ELSE "unknown"

ItemKey(item) ==
  IF item.variant_id /= NoId THEN item.variant_id
  ELSE IF item.product_id /= NoId THEN item.product_id ELSE "unknown"

IsCartEvent(e) == e.eventType \in {"cart_add", "cart_remove"}

\* keys of the currentState Map, in insertion order
StateKeys(lastEvents) ==
  Dedup([i \in 1..Len(SelectSeq(lastEvents, IsCartEvent)) |->
           EventKey(SelectSeq(lastEvents, IsCartEvent)[i])])

\* currentState.get(key) || 0
OldQty(lastEvents, key) ==
  SeqSum([i \in 1..Len(lastEvents) |->
    IF EventKey(lastEvents[i]) /= key THEN 0
    ELSE IF lastEvents[i].eventType = "cart_add" THEN lastEvents[i].quantity
    ELSE IF lastEvents[i].eventType = "cart_remove" THEN 0 - lastEvents[i].quantity
    ELSE 0])

\* keys of the newState Map, in insertion order
NewKeys(lineItems) == Dedup([i \in 1..Len(lineItems) |-> ItemKey(lineItems[i])])

HasKey(lineItems, key) == \E i \in 1..Len(lineItems) : ItemKey(lineItems[i]) = key

\* newState.get(key).item: a later line item with the same key overwrites
NewItem(lineItems, key) ==
  lineItems[CHOOSE i \in 1..Len(lineItems) :
              /\ ItemKey(lineItems[i]) = key
              /\ \A j \in 1..Len(lineItems) : ItemKey(lineItems[j]) = key => j <= i]

\* newState.get(key)?.quantity || 0
NewQty(lineItems, key) ==
  IF HasKey(lineItems, key) THEN NewItem(lineItems, key).quantity ELSE 0

\* additions filtered with >= in place of >
AddedKeysNotLess(lineItems, lastEvents) ==
  SelectSeq(NewKeys(lineItems),
            LAMBDA k : NewQty(lineItems, k) >= OldQty(lastEvents, k))

AddedKeys(lineItems, lastEvents) ==
  SelectSeq(NewKeys(lineItems),
            LAMBDA k : NewQty(lineItems, k) > OldQty(lastEvents, k))

Additions(sid, lineItems, lastEvents) ==
  [i \in 1..Len(AddedKeys(lineItems, lastEvents)) |->
    LET k == AddedKeys(lineItems, lastEvents)[i]
        item == NewItem(lineItems, k)
    IN CartEventRow(sid, "cart_add", item.product_id, item.variant_id,
                    item.quantity - OldQty(lastEvents, k), item.price)]

RemovedKeys(lineItems, lastEvents) ==
  SelectSeq(StateKeys(lastEvents),
            LAMBDA k : OldQty(lastEvents, k) > 0
                       /\ NewQty(lineItems, k) < OldQty(lastEvents, k))

\* lastEvents.find(...): index of the first matching cart_add, 0 for undefined
LastAdd(lastEvents, key) ==
  LET hits == {i \in 1..Len(lastEvents) :
                 /\ (lastEvents[i].variantId = key \/ lastEvents[i].productId = key)
                 /\ lastEvents[i].eventType = "cart_add"}
  IN IF hits = {} THEN 0 ELSE CHOOSE i \in hits : \A j \in hits : i <= j

Removals(sid, lineItems, lastEvents) ==
  [i \in 1..Len(RemovedKeys(lineItems, lastEvents)) |->
    LET k == RemovedKeys(lineItems, lastEvents)[i]
        la == LastAdd(lastEvents, k)
        qty == OldQty(lastEvents, k) - NewQty(lineItems, k)
    IN IF la = 0 THEN CartEventRow(sid, "cart_remove", k, k, qty, 0)
       ELSE CartEventRow(sid, "cart_remove",
              IF lastEvents[la].productId /= NoId THEN lastEvents[la].productId ELSE k,
              IF lastEvents[la].variantId /= NoId THEN lastEvents[la].variantId ELSE k,
              qty, lastEvents[la].price)]

\* initial events computed by the differencer against an empty log: one per
\* variant key
AddsByKey(sid, lineItems) == Additions(sid, lineItems, <<>>)

\* initial cart_add events of a freshly upserted session: one per line item
InitialAdds(sid, lineItems) ==
  [i \in 1..Len(lineItems) |->
    CartEventRow(sid, "cart_add", lineItems[i].product_id, lineItems[i].variant_id,
                 lineItems[i].quantity, lineItems[i].price)]

PayloadTotal(lineItems) ==
  SeqSum([i \in 1..Len(lineItems) |-> lineItems[i].price * lineItems[i].quantity])

\* an item count that counts lines instead of quantities
PayloadLines(lineItems) == Len(lineItems)

PayloadCount(lineItems) ==
  SeqSum([i \in 1..Len(lineItems) |-> lineItems[i].quantity])

----------------------------------------------------------------------------
(* SSE hub (sse.server.ts) *)

\* a selection without the tenant filter
AllClients(cl, shopId) == cl

\* the filter of broadcast, addClient and getClientCount on client.shopId
ShopClients(cl, shopId) == SelectSeq(cl, LAMBDA c : c.shopId = shopId)

Registered(cl) == {cl[i].id : i \in 1..Len(cl)}

\* a removal by position: an absent id takes the last entry with it
RemoveClientSplice(cl, id) ==
  IF id \in Registered(cl)
  THEN SelectSeq(cl, LAMBDA c : c.id /= id)
  ELSE SubSeq(cl, 1, Len(cl) - 1)

\* SSEManager.removeClient
RemoveClientFrom(cl, id) == SelectSeq(cl, LAMBDA c : c.id /= id)

\* a send loop without the try/catch around enqueue: the first failing
\* send ends the loop and raises
RECURSIVE SendLoopUncaught(_, _, _, _)
SendLoopUncaught(todo, cl, op, rc) ==
  IF todo = <<>> THEN [clients |-> cl, received |-> rc, raised |-> FALSE]
  ELSE LET c == todo[1]
       IN IF op[c.id]
          THEN SendLoopUncaught(Tail(todo), cl, op, [rc EXCEPT ![c.id] = @ + 1])
          ELSE [clients |-> cl, received |-> rc, raised |-> TRUE]

\* the send loop of SSEManager.broadcast over shopClients
RECURSIVE SendLoop(_, _, _, _)
SendLoop(todo, cl, op, rc) ==
  IF todo = <<>> THEN [clients |-> cl, received |-> rc, raised |-> FALSE]
  ELSE LET c == todo[1]
       IN IF op[c.id]
          THEN SendLoop(Tail(todo), cl, op, [rc EXCEPT ![c.id] = @ + 1])
          ELSE SendLoop(Tail(todo), RemoveClientFrom(cl, c.id), op, rc)

\* a broadcast that treats a tenant without connections as an error
BroadcastOrFail(cl, op, rc, shopId) ==
  IF ShopClients(cl, shopId) = <<>>
  THEN [clients |-> cl, received |-> rc, raised |-> TRUE]
  ELSE SendLoop(ShopClients(cl, shopId), cl, op, rc)

\* SSEManager.broadcast
BroadcastTo(cl, op, rc, shopId) == SendLoop(ShopClients(cl, shopId), cl, op, rc)

\* a handler publishes the re-read session to the tenant's viewers
Publish(shopId) ==
  LET r == BroadcastTo(clients, open, received, shopId)
  IN /\ clients' = r.clients
     /\ received' = r.received
     /\ pubs' = Append(pubs,
          [shopId |-> shopId, raised |-> r.raised,
           sent |-> {c \in DOMAIN received : r.received[c] > received[c]},
           removed |-> Registered(clients) \ Registered(r.clients)])
     /\ UNCHANGED <<open, endpoint>>

MaxConnectionsPerShop == 10

\* SSEManager.getClientCount(shopId)
ClientCount(cl, shopId) == Len(ShopClients(cl, shopId))

\* a cap test that admits one connection more
LimitExceeded(cl, shopId) == ClientCount(cl, shopId) > MaxConnectionsPerShop

\* the cap test of SSEManager.addClient
LimitReached(cl, shopId) == ClientCount(cl, shopId) >= MaxConnectionsPerShop

\* SSEManager.addClient: the registry after the call, the value returned and
\* whether the offered controller was closed
AddClientTo(cl, c, shopId) ==
  IF LimitReached(cl, shopId)
  THEN [clients |-> cl, ok |-> FALSE, closed |-> TRUE]
  ELSE [clients |-> Append(cl, [id |-> c, shopId |-> shopId]),
        ok |-> TRUE, closed |-> FALSE]

\* a viewer request the loader has not received yet
NoRequest == [phase |-> "new", shopId |-> NoId, status |-> 0,
              aborted |-> FALSE, listener |-> FALSE, timer |-> FALSE]

\* a start() that registers the client and arms the keep-alive but leaves
\* the connected message to a later turn of the event loop
StreamStartDeferred(c, shopId) ==
  LET r == AddClientTo(clients, c, shopId)
  IN /\ clients' = r.clients
     /\ conn' = [conn EXCEPT ![c] =
          [@ EXCEPT !.phase = "streaming", !.shopId = shopId,
                    !.status = 200, !.listener = TRUE, !.timer = TRUE]]
     /\ UNCHANGED <<open, received>>

\* start() of the response stream, one synchronous block: addClient, the
\* connected message, the keep-alive interval, the abort listener.  The
\* value addClient returns is not read: on a controller addClient closed
\* the enqueue of the connected message throws, the ReadableStream
\* constructor rethrows and the loader's catch answers 500.
StreamStart(c, shopId) ==
  LET r == AddClientTo(clients, c, shopId)
  IN /\ clients' = r.clients
     /\ IF r.closed
        THEN /\ open' = [open EXCEPT ![c] = FALSE]
             /\ conn' = [conn EXCEPT ![c] =
                  [@ EXCEPT !.phase = "done", !.shopId = shopId, !.status = 500]]
             /\ UNCHANGED received
        ELSE /\ received' = [received EXCEPT ![c] = @ + 1]
             /\ conn' = [conn EXCEPT ![c] =
                  [@ EXCEPT !.phase = "streaming", !.shopId = shopId,
                            !.status = 200, !.listener = TRUE, !.timer = TRUE]]
             /\ UNCHANGED open

\* a stream starts for a fresh connection id
AddClient(c, shopId) ==
  /\ c \notin Registered(clients)
  /\ open[c]
  /\ StreamStart(c, shopId)
  /\ UNCHANGED <<store, pc, local, done, started, pubs, modules, images>>

\* the abort listener of app.api.sse.tsx: clearInterval, removeClient,
\* controller.close()
Abort(c) ==
  /\ c \in Registered(clients)
  /\ clients' = RemoveClientFrom(clients, c)
  /\ open' = [open EXCEPT ![c] = FALSE]
  /\ conn' = [conn EXCEPT ![c] = [@ EXCEPT !.aborted = TRUE, !.timer = FALSE]]
  /\ UNCHANGED <<store, pc, local, done, started, received, pubs, modules, images>>

\* the stream of a registered connection is cancelled or errors: from now on
\* controller.enqueue throws
StreamFails(c) ==
  /\ c \in Registered(clients)
  /\ open[c]
  /\ open' = [open EXCEPT ![c] = FALSE]
  /\ UNCHANGED <<store, pc, local, done, started, clients, received, pubs,
                 endpoint>>

IMAGE_CACHE_MAX == 500

ImageTasks == 1..3   \* getProductImage calls that can be in flight together

NoCall == [at |-> "idle", key |-> 0, result |-> NoId]

\* an empty imageCache and no call in flight
NoImages == [cache |-> <<>>, calls |-> [q \in ImageTasks |-> NoCall], n |-> 0]

\* the modules that import sseManager from sse.server: the cart, checkout
\* and order webhooks, the pixel route and the SSE endpoint
Importers == {"webhooks.carts", "webhooks.checkouts", "webhooks.orders",
              "_index", "app.api.sse"}

\* sse.server evaluated once, every importer holding that evaluation's
\* instance (instances are numbered from 1 in creation order, 0 is none)
LoadedOnce == [nodeEnv |-> "production", global |-> 0, made |-> 1, loads |-> 1,
               held |-> [m \in Importers |-> 1]]

\* one evaluation of the body of sse.server on behalf of importer m
Evaluate(mods, m) ==
  IF mods.nodeEnv /= "production"
  THEN IF mods.global = 0
       THEN [mods EXCEPT !.made = @ + 1, !.loads = @ + 1,
                         !.global = mods.made + 1, !.held[m] = mods.made + 1]
       ELSE [mods EXCEPT !.loads = @ + 1, !.held[m] = mods.global]
  ELSE [mods EXCEPT !.made = @ + 1, !.loads = @ + 1,
                    !.held[m] = mods.made + 1]

\* the connections of a registry are streaming, every other id is unused
ConnsOf(cl, ids) ==
  [c \in ids |->
     IF c \in Registered(cl)
     THEN [NoRequest EXCEPT !.phase = "streaming", !.status = 200,
             !.shopId = cl[CHOOSE i \in 1..Len(cl) : cl[i].id = c].shopId,
             !.listener = TRUE, !.timer = TRUE]
     ELSE NoRequest]

\* some handler publishes to a tenant
HubBroadcast(shopId, limit) ==
  /\ Len(pubs) < limit
  /\ Publish(shopId)
  /\ UNCHANGED <<store, pc, local, done, started>>

----------------------------------------------------------------------------
(* Request tasks *)

Idle == [kind |-> "none", topic |-> "", shopId |-> NoId, token |-> NoToken,
         lineItems |-> <<>>, customerId |-> NoId, orderId |-> NoId,
         eventType |-> "", variantId |-> NoId, quantity |-> 0, price |-> 0,
         sid |-> 0, lastEvents |-> <<>>, pending |-> <<>>, next |-> 1,
         cartSession |-> CartSessionRow(NoId, NoToken), updates |-> <<>>,
         branch |-> "", before |-> 0, doneBefore |-> 0, hadStarted |-> FALSE,
         ahead |-> FALSE, ids |-> {}]

\* the notification a task works on, as recorded when it finishes: its
\* payload and response, the length of the event log when it was accepted
\* (before) and when it finished (after), the number of notifications that
\* had finished when it was accepted, whether its session held a
\* checkout_started event when it was accepted, and the session's totals at
\* the end
Finished(l, status) ==
  [kind |-> l.kind, topic |-> l.topic, shopId |-> l.shopId, token |-> l.token,
   lineItems |-> l.lineItems, customerId |-> l.customerId, orderId |-> l.orderId,
   eventType |-> l.eventType, sid |-> l.sid, status |-> status,
   before |-> l.before, after |-> Len(events'), doneBefore |-> l.doneBefore,
   hadStarted |-> l.hadStarted,
   cartTotal |-> IF l.sid = 0 THEN 0 ELSE sessions'[l.sid].cartTotal,
   itemCount |-> IF l.sid = 0 THEN 0 ELSE sessions'[l.sid].itemCount]

\* the handler returns (status "ok": 2xx, "error": caught and answered 500,
\* "unhandled": an exception escaped the handler)
Return(p, l, status) ==
  /\ pc' = [pc EXCEPT ![p] = "idle"]
  /\ local' = [local EXCEPT ![p] = Idle]
  /\ done' = Append(done, Finished(l, status))

AllIdle == \A p \in Procs : pc[p] = "idle"

----------------------------------------------------------------------------
(* Cart webhook (webhooks.carts.tsx) *)

\* lines 45-79 and 118-152: payload, totals, findUnique with events, branch.
\* A payload without token and id leaves visitorId undefined: the store
\* client either rejects the findUnique, or finds nothing and then rejects
\* the upsert, whose create lacks the required visitorId; the catch answers
\* 500. With no line items the second outcome bails out with success.
CartsFind(p, limit, shops, topics, tokens, snaps, customers) ==
  /\ pc[p] = "idle"
  /\ started < limit
  /\ started' = started + 1
  /\ UNCHANGED <<sessions, events, hub>>
  /\ \E shopId \in shops, topic \in topics, token \in tokens, lineItems \in snaps,
        customerId \in customers :
       LET sid == IF token = NoToken THEN 0 ELSE FindSession(sessions, shopId, token)
           lastEvents == IF sid = 0 THEN <<>> ELSE EventsOf(events, sid)
           l == [Idle EXCEPT !.kind = "cart", !.topic = topic, !.shopId = shopId,
                             !.token = token, !.lineItems = lineItems,
                             !.customerId = customerId, !.sid = sid,
                             !.lastEvents = lastEvents, !.before = Len(events),
                             !.doneBefore = Len(done)]
       IN IF token = NoToken
          THEN \/ Return(p, l, "error")
               \/ Return(p, l, IF Len(lineItems) > 0 THEN "error" ELSE "ok")
          ELSE IF sid /= 0
          THEN /\ pc' = [pc EXCEPT ![p] = "carts_events"]
               /\ local' = [local EXCEPT ![p] =
                    [l EXCEPT !.branch = "diff",
                              !.cartSession = sessions[sid],
                              !.pending = Additions(sid, lineItems, lastEvents)
                                          \o Removals(sid, lineItems, lastEvents)]]
               /\ UNCHANGED done
          ELSE IF Len(lineItems) > 0
          THEN /\ pc' = [pc EXCEPT ![p] = "carts_upsert"]
               /\ local' = [local EXCEPT ![p] = [l EXCEPT !.branch = "create"]]
               /\ UNCHANGED done
          ELSE Return(p, l, "ok")

\* lines 80-92 / 215-227: cartSession.upsert
CartsUpsert(p) ==
  /\ pc[p] = "carts_upsert"
  /\ LET l == local[p]
         totals == [cartTotal |-> PayloadTotal(l.lineItems),
                    itemCount |-> PayloadCount(l.lineItems)]
         ident == IF l.customerId /= NoId
                  THEN [customerId |-> l.customerId] ELSE <<>>
         r == UpsertSession(sessions, l.shopId, l.token,
                            [cartCreated |-> TRUE] @@ totals @@ ident,
                            totals @@ ident)
     IN /\ sessions' = r.rows
        /\ local' = [local EXCEPT ![p] =
             [l EXCEPT !.sid = r.id, !.pending = InitialAdds(r.id, l.lineItems)]]
        /\ pc' = [pc EXCEPT ![p] = "carts_events"]
  /\ UNCHANGED <<events, done, started, hub>>

\* lines 101-117 / 153-200 / 236-252: the cartEvent.create calls, one per step
CartsCreateEvent(p) ==
  /\ pc[p] = "carts_events"
  /\ local[p].next <= Len(local[p].pending)
  /\ UNCHANGED <<sessions, started, hub>>
  /\ IF ForeignKeyViolation(sessions, local[p].pending[local[p].next])
     THEN /\ UNCHANGED events
          /\ Return(p, local[p], "error")
     ELSE /\ events' = Append(events, local[p].pending[local[p].next])
          /\ local' = [local EXCEPT ![p].next = @ + 1]
          /\ UNCHANGED <<pc, done>>

\* lines 202-212: cartSession.update, diff branch only
CartsUpdate(p) ==
  /\ pc[p] = "carts_events"
  /\ local[p].next > Len(local[p].pending)
  /\ local[p].branch = "diff"
  /\ UNCHANGED <<events, started, hub>>
  /\ LET l == local[p]
     IN IF ~Exists(sessions, l.sid)
        THEN /\ UNCHANGED sessions
             /\ Return(p, l, "error")
        ELSE /\ sessions' = [sessions EXCEPT ![l.sid] = ApplyUpdate(@,
                  [cartTotal |-> PayloadTotal(l.lineItems),
                   itemCount |-> PayloadCount(l.lineItems),
                   customerId |-> IF l.customerId /= NoId THEN l.customerId
                                  ELSE l.cartSession.customerId])]
             /\ pc' = [pc EXCEPT ![p] = "carts_reread"]
             /\ UNCHANGED <<local, done>>

\* lines 255-272: re-read the session, broadcast, success
CartsBroadcast(p) ==
  /\ \/ pc[p] = "carts_reread"
     \/ /\ pc[p] = "carts_events"
        /\ local[p].next > Len(local[p].pending)
        /\ local[p].branch = "create"
  /\ UNCHANGED <<sessions, events, started>>
  /\ Publish(local[p].shopId)
  /\ Return(p, local[p], "ok")

----------------------------------------------------------------------------
(* Checkout webhook (webhooks.checkouts.tsx); it has no try/catch, a store *)
(* error escapes the handler                                               *)

TakeN == 10

\* orderBy timestamp: server-stamped rows in the order of their creation,
\* then the rows stamped ahead of the server clock
ByTimestamp(es) ==
  SelectSeq(es, LAMBDA e : ~e.ahead) \o SelectSeq(es, LAMBDA e : e.ahead)

\* include: { events: { orderBy: { timestamp: "desc" }, take: 10 } }
RecentEvents(evs, sid) ==
  LET es == ByTimestamp(EventsOf(evs, sid))
  IN IF Len(es) <= TakeN THEN es ELSE SubSeq(es, Len(es) - TakeN + 1, Len(es))

HasType(evs, type) == \E i \in 1..Len(evs) : evs[i].eventType = type

CheckoutItems(sid, lineItems) ==
  [i \in 1..Len(lineItems) |->
    CartEventRow(sid, "checkout_item", lineItems[i].product_id,
                 lineItems[i].variant_id, lineItems[i].quantity, lineItems[i].price)]

\* lines 119-139: the checkout_item batch, only when the events read at the
\* start hold no checkout_item
ItemBatch(l) ==
  IF HasType(l.lastEvents, "checkout_item") THEN <<>>
  ELSE CheckoutItems(l.sid, l.lineItems)

\* lines 11-97: token, findFirst with the recent events, the update to apply
CheckoutsFind(p, limit, shops, tokens, snaps, customers) ==
  /\ pc[p] = "idle"
  /\ started < limit
  /\ started' = started + 1
  /\ UNCHANGED <<sessions, events, hub>>
  /\ \E shopId \in shops, token \in tokens, lineItems \in snaps,
        customerId \in customers :
       LET sid == IF token = NoToken THEN 0 ELSE FindSession(sessions, shopId, token)
           l == [Idle EXCEPT !.kind = "checkout", !.shopId = shopId,
                             !.token = token, !.lineItems = lineItems,
                             !.customerId = customerId, !.sid = sid,
                             !.before = Len(events),
                             !.doneBefore = Len(done)]
       IN IF sid = 0 THEN Return(p, l, "ok")
          ELSE /\ pc' = [pc EXCEPT ![p] = "checkouts_update"]
               /\ local' = [local EXCEPT ![p] =
                    [l EXCEPT !.cartSession = sessions[sid],
                              !.hadStarted = CountType(events, sid, "checkout_started") > 0,
                              !.lastEvents = RecentEvents(events, sid),
                              !.updates = [checkoutStarted |-> TRUE] @@
                                 (IF customerId /= NoId
                                  THEN [customerId |-> customerId] ELSE <<>>)]]
               /\ UNCHANGED done

\* lines 99-109: cartSession.update, then the check for an existing
\* checkout_started among the events read at the start
CheckoutsUpdate(p) ==
  /\ pc[p] = "checkouts_update"
  /\ UNCHANGED <<events, started, hub>>
  /\ IF ~Exists(sessions, local[p].sid)
     THEN /\ UNCHANGED sessions
          /\ Return(p, local[p], "unhandled")
     ELSE /\ sessions' = [sessions EXCEPT ![local[p].sid] =
                            ApplyUpdate(@, local[p].updates)]
          /\ IF HasType(local[p].lastEvents, "checkout_started")
             THEN /\ pc' = [pc EXCEPT ![p] = "checkouts_items"]
                  /\ local' = [local EXCEPT ![p].pending = ItemBatch(local[p])]
             ELSE /\ pc' = [pc EXCEPT ![p] = "checkouts_started"]
                  /\ UNCHANGED local
          /\ UNCHANGED done

\* lines 110-116: cartEvent.create of checkout_started
CheckoutsCreateStarted(p) ==
  /\ pc[p] = "checkouts_started"
  /\ UNCHANGED <<sessions, started, hub>>
  /\ LET e == CartEventRow(local[p].sid, "checkout_started", NoId, NoId, 0, 0)
     IN IF UniqueViolation(events, e) \/ ForeignKeyViolation(sessions, e)
        THEN /\ UNCHANGED events
             /\ Return(p, local[p], "unhandled")
        ELSE /\ events' = Append(events, e)
             /\ pc' = [pc EXCEPT ![p] = "checkouts_items"]
             /\ local' = [local EXCEPT ![p].pending = ItemBatch(local[p])]
             /\ UNCHANGED done

\* lines 122-136: cartEvent.create of one checkout_item
CheckoutsCreateItem(p) ==
  /\ pc[p] = "checkouts_items"
  /\ local[p].next <= Len(local[p].pending)
  /\ UNCHANGED <<sessions, started, hub>>
  /\ IF ForeignKeyViolation(sessions, local[p].pending[local[p].next])
     THEN /\ UNCHANGED events
          /\ Return(p, local[p], "unhandled")
     ELSE /\ events' = Append(events, local[p].pending[local[p].next])
          /\ local' = [local EXCEPT ![p].next = @ + 1]
          /\ UNCHANGED <<pc, done>>

\* lines 141-158: re-read, broadcast, success
CheckoutsBroadcast(p) ==
  /\ pc[p] = "checkouts_items"
  /\ local[p].next > Len(local[p].pending)
  /\ UNCHANGED <<sessions, events, started>>
  /\ Publish(local[p].shopId)
  /\ Return(p, local[p], "ok")

----------------------------------------------------------------------------
(* Order webhook (webhooks.orders.tsx) *)

\* findFirst({ shopId, visitorId, orderPlaced: false }, createdAt desc)
FindUnconverted(ss, shopId, token) ==
  LET m == {i \in Matching(ss, shopId, token) : ~ss[i].orderPlaced}
  IN IF m = {} THEN 0 ELSE CHOOSE i \in m : \A j \in m : j <= i

\* attribution that falls back to the customer id when the token is missing
OrderSessionByCustomer(ss, shopId, token, customerId) ==
  IF token /= NoToken THEN FindUnconverted(ss, shopId, token)
  ELSE LET m == {i \in 1..Len(ss) : /\ ss[i].shopId = shopId
                                     /\ customerId /= NoId
                                     /\ ss[i].customerId = customerId
                                     /\ ~ss[i].orderPlaced}
       IN IF m = {} THEN 0 ELSE CHOOSE i \in m : \A j \in m : j <= i

\* lines 41-52: the session an order is attributed to, by cart_token only
OrderSession(ss, shopId, token, customerId) ==
  IF token = NoToken THEN 0 ELSE FindUnconverted(ss, shopId, token)

\* lines 11-56: payload, session lookup
OrdersFind(p, limit, shops, tokens, orders, customers) ==
  /\ pc[p] = "idle"
  /\ started < limit
  /\ started' = started + 1
  /\ UNCHANGED <<sessions, events, hub>>
  /\ \E shopId \in shops, token \in tokens, orderId \in orders,
        customerId \in customers :
       LET sid == OrderSession(sessions, shopId, token, customerId)
           l == [Idle EXCEPT !.kind = "order", !.shopId = shopId,
                             !.token = token, !.orderId = orderId,
                             !.customerId = customerId, !.sid = sid,
                             !.before = Len(events),
                             !.doneBefore = Len(done)]
       IN IF sid = 0 THEN Return(p, l, "ok")
          ELSE /\ pc' = [pc EXCEPT ![p] = "orders_update"]
               /\ local' = [local EXCEPT ![p] =
                              [l EXCEPT !.cartSession = sessions[sid]]]
               /\ UNCHANGED done

\* lines 60-73: mark the session converted
OrdersUpdate(p) ==
  /\ pc[p] = "orders_update"
  /\ UNCHANGED <<events, started, hub>>
  /\ LET l == local[p]
     IN IF ~Exists(sessions, l.sid)
        THEN /\ UNCHANGED sessions
             /\ Return(p, l, "error")
        ELSE /\ sessions' = [sessions EXCEPT ![l.sid] = ApplyUpdate(@,
                  [orderPlaced |-> TRUE, orderId |-> l.orderId,
                   customerId |-> IF l.customerId /= NoId THEN l.customerId
                                  ELSE l.cartSession.customerId])]
             /\ pc' = [pc EXCEPT ![p] = "orders_event"]
             /\ UNCHANGED <<local, done>>

\* lines 76-81: cartEvent.create of checkout_completed
OrdersCreateEvent(p) ==
  /\ pc[p] = "orders_event"
  /\ UNCHANGED <<sessions, started, hub>>
  /\ LET e == CartEventRow(local[p].sid, "checkout_completed", NoId, NoId, 0, 0)
     IN IF ForeignKeyViolation(sessions, e)
        THEN /\ UNCHANGED events
             /\ Return(p, local[p], "error")
        ELSE /\ events' = Append(events, e)
             /\ pc' = [pc EXCEPT ![p] = "orders_reread"]
             /\ UNCHANGED <<local, done>>

\* lines 84-103: re-read, broadcast, success
OrdersBroadcast(p) ==
  /\ pc[p] = "orders_reread"
  /\ UNCHANGED <<sessions, events, started>>
  /\ Publish(local[p].shopId)
  /\ Return(p, local[p], "ok")

----------------------------------------------------------------------------
(* Cart totals recomputed from the log (_index/route.tsx lines 289-310) *)

RecalcTotal(cartEvents) ==
  Max0(SeqSum([i \in 1..Len(cartEvents) |->
    LET e == cartEvents[i]
    IN IF e.eventType = "cart_add" /\ e.price /= 0 /\ e.quantity /= 0
       THEN e.price * e.quantity
       ELSE IF e.eventType = "cart_remove" /\ e.quantity /= 0 /\ e.price /= 0
       THEN 0 - e.price * e.quantity
       ELSE 0]))

RecalcItems(cartEvents) ==
  Max0(SeqSum([i \in 1..Len(cartEvents) |->
    LET e == cartEvents[i]
    IN IF e.eventType = "cart_add" /\ e.price /= 0 /\ e.quantity /= 0
       THEN e.quantity
       ELSE IF e.eventType = "cart_remove" /\ e.quantity /= 0
       THEN 0 - e.quantity
       ELSE 0]))

----------------------------------------------------------------------------
(* Pixel endpoint (_index/route.tsx, action) *)

PixelPrices == {0, UnitPrice}

CartTypes == {"cart_add", "cart_remove"}

\* the payloads the pixel sends: cart events carry a variant, a quantity
\* and a price, the other events carry none
PixelPayloads(types, variants, prices) ==
  {[eventType |-> t, variantId |-> v, quantity |-> q, price |-> pr,
    ahead |-> FALSE] :
     t \in types \cap CartTypes, v \in variants, q \in 1..MaxQty, pr \in prices}
  \cup {[eventType |-> t, variantId |-> NoId, quantity |-> 0, price |-> 0,
         ahead |-> FALSE] :
          t \in types \ CartTypes}

\* the same payloads sent by a browser whose clock runs ahead of the server's
AheadOfClock(payloads) == {[pl EXCEPT !.ahead = TRUE] : pl \in payloads}

\* lines 224-261: cartSession.upsert, the returned row is kept as cartSession
EventsUpsert(p, limit, shops, tokens, payloads, customers) ==
  /\ pc[p] = "idle"
  /\ started < limit
  /\ started' = started + 1
  /\ \E shopId \in shops, token \in tokens, pl \in payloads,
        customerId \in customers :
       LET ident == IF customerId /= NoId
                    THEN [customerId |-> customerId] ELSE <<>>
           r == UpsertSession(sessions, shopId, token, ident, ident)
       IN /\ sessions' = r.rows
          /\ local' = [local EXCEPT ![p] =
               [Idle EXCEPT !.kind = "pixel", !.shopId = shopId, !.token = token,
                            !.eventType = pl.eventType, !.variantId = pl.variantId,
                            !.quantity = pl.quantity, !.price = pl.price,
                            !.ahead = pl.ahead,
                            !.customerId = customerId, !.sid = r.id,
                            !.cartSession = r.rows[r.id],
                            !.hadStarted = CountType(events, r.id, "checkout_started") > 0,
                            !.before = Len(events),
                             !.doneBefore = Len(done)]]
  /\ pc' = [pc EXCEPT ![p] = "events_create"]
  /\ UNCHANGED <<events, done, hub>>

\* lines 313-323: the funnel flags an event sets
FunnelUpdates(l) ==
  IF l.eventType = "checkout_started"
  THEN [checkoutStarted |-> TRUE] @@
       (IF l.cartSession.checkoutAbandoned
        THEN [checkoutAbandoned |-> FALSE] ELSE <<>>)
  ELSE IF l.eventType = "checkout_completed" THEN [orderPlaced |-> TRUE]
  ELSE <<>>

\* abandonment detection that does not look at orderPlaced
DetectsAbandonmentUnguarded(l) ==
  /\ l.eventType = "page_view"
  /\ l.cartSession.checkoutStarted
  /\ ~l.cartSession.checkoutAbandoned

\* lines 326-331: page_view after checkout started, before order placed
DetectsAbandonment(l) ==
  /\ l.eventType = "page_view"
  /\ l.cartSession.checkoutStarted
  /\ ~l.cartSession.orderPlaced
  /\ ~l.cartSession.checkoutAbandoned

\* lines 264-279: cartEvent.create of the reported event; a unique-index
\* violation is caught by the handler's catch and answered with 500
EventsCreate(p) ==
  /\ pc[p] = "events_create"
  /\ UNCHANGED <<sessions, started, hub>>
  /\ LET l == local[p]
         e == [CartEventRow(l.sid, l.eventType,
                 IF l.variantId = NoId THEN NoId ELSE ProductOf(l.variantId),
                 l.variantId, l.quantity, l.price) EXCEPT !.ahead = l.ahead]
     IN IF UniqueViolation(events, e) \/ ForeignKeyViolation(sessions, e)
        THEN /\ UNCHANGED events
             /\ Return(p, l, "error")
        ELSE /\ events' = Append(events, e)
             /\ local' = [local EXCEPT ![p].updates = FunnelUpdates(l)]
             /\ pc' = [pc EXCEPT ![p] =
                  IF l.eventType \in CartTypes THEN "events_recalc"
                  ELSE IF DetectsAbandonment(l) THEN "events_abandon"
                  ELSE IF DOMAIN FunnelUpdates(l) /= {} THEN "events_update"
                  ELSE "events_reread"]
             /\ UNCHANGED done

\* lines 284-311: cartEvent.findMany of the add/remove events, totals recomputed
EventsRecalc(p) ==
  /\ pc[p] = "events_recalc"
  /\ LET cartEvents == SelectSeq(EventsOf(events, local[p].sid), IsCartEvent)
     IN local' = [local EXCEPT ![p].updates =
          (IF local[p].eventType = "cart_add"
           THEN [cartCreated |-> TRUE] ELSE <<>>) @@
          [cartTotal |-> RecalcTotal(cartEvents),
           itemCount |-> RecalcItems(cartEvents)]]
  /\ pc' = [pc EXCEPT ![p] = "events_update"]
  /\ UNCHANGED <<sessions, events, done, started, hub>>

\* lines 332-339: cartEvent.create of checkout_abandoned
EventsAbandon(p) ==
  /\ pc[p] = "events_abandon"
  /\ UNCHANGED <<sessions, started, hub>>
  /\ LET e == CartEventRow(local[p].sid, "checkout_abandoned", NoId, NoId, 0, 0)
     IN IF ForeignKeyViolation(sessions, e)
        THEN /\ UNCHANGED events
             /\ Return(p, local[p], "error")
        ELSE /\ events' = Append(events, e)
             /\ local' = [local EXCEPT ![p].updates = [checkoutAbandoned |-> TRUE]]
             /\ pc' = [pc EXCEPT ![p] = "events_update"]
             /\ UNCHANGED done

\* lines 342-347: cartSession.update with the collected updates
EventsUpdate(p) ==
  /\ pc[p] = "events_update"
  /\ UNCHANGED <<events, started, hub>>
  /\ IF ~Exists(sessions, local[p].sid)
     THEN /\ UNCHANGED sessions
          /\ Return(p, local[p], "error")
     ELSE /\ sessions' = [sessions EXCEPT ![local[p].sid] =
                            ApplyUpdate(@, local[p].updates)]
          /\ pc' = [pc EXCEPT ![p] = "events_reread"]
          /\ UNCHANGED <<local, done>>

\* lines 350-363: re-read, broadcast, success
EventsBroadcast(p) ==
  /\ pc[p] = "events_reread"
  /\ UNCHANGED <<sessions, events, started>>
  /\ Publish(local[p].shopId)
  /\ Return(p, local[p], "ok")

----------------------------------------------------------------------------
(* The differencer on its own: one cart.updated snapshot processed against *)
(* a session whose history is drawn from the bounded set of histories.     *)

DiffOrder == <<"A", "B", "C">>

DiffEvents ==
  {CartEventRow(1, t, ProductOf(k), k, q, UnitPrice) :
     t \in {"cart_add", "cart_remove"}, k \in DiffVariants, q \in 1..MaxQty}

Histories == UNION {[1..n -> DiffEvents] : n \in 0..MaxHist}

SnapOfMap(f) ==
  LET ks == SelectSeq(DiffOrder, LAMBDA k : f[k] > 0)
  IN [i \in 1..Len(ks) |-> LineItem(ks[i], f[ks[i]])]

DiffSnapshots == {SnapOfMap(f) : f \in [DiffVariants -> 0..(MaxQty + 1)]}

SessionWithLog(shopId, token, evs) ==
  ApplyUpdate(CartSessionRow(shopId, token),
    [cartCreated |-> TRUE,
     cartTotal |-> RecalcTotal(SelectSeq(evs, IsCartEvent)),
     itemCount |-> RecalcItems(SelectSeq(evs, IsCartEvent))])

HubInit ==
  /\ clients = <<[id |-> 1, shopId |-> "T1"]>>
  /\ open = [c \in ClientIds |-> TRUE]
  /\ received = [c \in ClientIds |-> 0]
  /\ pubs = <<>>
  /\ conn = ConnsOf(clients, ClientIds)
  /\ modules = LoadedOnce
  /\ images = NoImages

InitDiff ==
  /\ events \in Histories
  /\ sessions = <<SessionWithLog("T1", "tok1", events)>>
  /\ pc = [p \in Procs |-> "idle"]
  /\ local = [p \in Procs |-> Idle]
  /\ done = <<>>
  /\ started = MaxNotifs - 1
  /\ HubInit

NextDiff ==
  \/ \E p \in Procs : CartsFind(p, MaxNotifs, {"T1"}, {"CARTS_UPDATE"}, Tokens, DiffSnapshots, {NoId})
  \/ \E p \in Procs : CartsCreateEvent(p)
  \/ \E p \in Procs : CartsUpdate(p)
  \/ \E p \in Procs : CartsBroadcast(p)

SpecDiff == InitDiff /\ [][NextDiff]_vars

----------------------------------------------------------------------------
(* Believed quantity of a key: adds minus removes over a log, by replay *)

RECURSIVE Believed(_, _)
Believed(evs, k) ==
  IF evs = <<>> THEN 0
  ELSE LET e == evs[Len(evs)]
           rest == Believed(SubSeq(evs, 1, Len(evs) - 1), k)
       IN IF EventKey(e) = k /\ e.eventType = "cart_add" THEN rest + e.quantity
          ELSE IF EventKey(e) = k /\ e.eventType = "cart_remove" THEN rest - e.quantity
          ELSE rest

\* quantity a snapshot holds for a key, 0 when the key is absent
SnapQty(lineItems, k) ==
  SeqSum([i \in 1..Len(lineItems) |->
    IF lineItems[i].variant_id = k THEN lineItems[i].quantity ELSE 0])

InSnap(lineItems, k) == \E i \in 1..Len(lineItems) : lineItems[i].variant_id = k

AllKeys == Variants \cup DiffVariants

\* the created events a task has queued for key k, by kind
Queued(p, type, k) ==
  {i \in 1..Len(local[p].pending) :
     local[p].pending[i].eventType = type /\ EventKey(local[p].pending[i]) = k}

Diffing(p) == pc[p] = "carts_events" /\ local[p].branch = "diff"

\* C2: for believed map B (replayed from the prior events) and snapshot S the
\* differencer emits exactly one cart_add of S[k]-B[k] for every snapshot key
\* with S[k] > B[k], exactly one cart_remove of B[k]-S[k] for every key with
\* B[k] > 0 and S[k] < B[k], and nothing else.
C2_DeltaCorrectness ==
  \A p \in Procs : Diffing(p) =>
    /\ \A i \in 1..Len(local[p].pending) :
         /\ IsCartEvent(local[p].pending[i])
         /\ EventKey(local[p].pending[i]) \in AllKeys
    /\ \A k \in AllKeys :
         LET B == Believed(local[p].lastEvents, k)
             S == SnapQty(local[p].lineItems, k)
             adds == Queued(p, "cart_add", k)
             rems == Queued(p, "cart_remove", k)
         IN /\ IF InSnap(local[p].lineItems, k) /\ S > B
               THEN /\ Cardinality(adds) = 1
                    /\ \A i \in adds : local[p].pending[i].quantity = S - B
               ELSE adds = {}
            /\ IF B > 0 /\ S < B
               THEN /\ Cardinality(rems) = 1
                    /\ \A i \in rems : local[p].pending[i].quantity = B - S
               ELSE rems = {}

\* the example of the specification: B = {A:2, B:1}, S = {A:3, C:2} gives
\* cart_add A 1, cart_add C 2, cart_remove B 1
C2_Witness ==
  \E p \in Procs :
    /\ Diffing(p)
    /\ Believed(local[p].lastEvents, "A") = 2
    /\ Believed(local[p].lastEvents, "B") = 1
    /\ Believed(local[p].lastEvents, "C") = 0
    /\ local[p].lineItems = <<LineItem("A", 3), LineItem("C", 2)>>
    /\ Len(local[p].pending) = 3
    /\ \E i \in Queued(p, "cart_add", "A") : local[p].pending[i].quantity = 1
    /\ \E i \in Queued(p, "cart_add", "C") : local[p].pending[i].quantity = 2
    /\ \E i \in Queued(p, "cart_remove", "B") : local[p].pending[i].quantity = 1

----------------------------------------------------------------------------
(* Checkout notifications for one session: checkout webhooks and pixel     *)
(* checkout_started / page_view events racing on a session that a cart     *)
(* webhook created earlier.                                                *)

CheckoutSnaps == {<<>>, <<LineItem("v1", 1)>>}

\* checkout payloads with and without a cart_token
CheckoutTokens == {"tok1", NoToken}

\* the pixel events of a visitor who browses and starts a checkout
CheckoutPixel == PixelPayloads({"checkout_started", "page_view"}, {}, {})

InitStore(rows, evs) ==
  /\ sessions = rows
  /\ events = evs
  /\ pc = [p \in Procs |-> "idle"]
  /\ local = [p \in Procs |-> Idle]
  /\ done = <<>>
  /\ started = 0
  /\ HubInit

BrowsingLog == <<CartEventRow(1, "cart_add", "p1", "v1", 1, UnitPrice)>>

InitCheckout == InitStore(<<SessionWithLog("T1", "tok1", BrowsingLog)>>, BrowsingLog)

NextCheckout ==
  \/ \E p \in Procs :
       CheckoutsFind(p, MaxNotifs, {"T1"}, CheckoutTokens, CheckoutSnaps, {NoId})
  \/ \E p \in Procs : CheckoutsUpdate(p)
  \/ \E p \in Procs : CheckoutsCreateStarted(p)
  \/ \E p \in Procs : CheckoutsCreateItem(p)
  \/ \E p \in Procs : CheckoutsBroadcast(p)
  \/ \E p \in Procs :
       EventsUpsert(p, MaxNotifs, {"T1"}, Tokens, CheckoutPixel, {NoId})
  \/ \E p \in Procs : EventsCreate(p)
  \/ \E p \in Procs : EventsAbandon(p)
  \/ \E p \in Procs : EventsUpdate(p)
  \/ \E p \in Procs : EventsBroadcast(p)

SpecCheckout == InitCheckout /\ [][NextCheckout]_vars

\* a finished notification that reports the start of a checkout for session sid
StartedCheckout(d, sid) ==
  /\ d.sid = sid
  /\ \/ d.kind = "checkout"
     \/ d.kind = "pixel" /\ d.eventType = "checkout_started"

\* C1: under any interleaving of checkout webhooks and pixel checkout_started
\* events for one session the log never holds two checkout_started events,
\* and holds exactly one once the handlers have finished.
C1_SingleCheckoutStarted ==
  \A sid \in SessionIds :
    /\ CountType(events, sid, "checkout_started") <= 1
    /\ (AllIdle /\ \E i \in 1..Len(done) : StartedCheckout(done[i], sid))
         => CountType(events, sid, "checkout_started") = 1

\* two deliveries for the session have finished, the later one accepted
\* before the earlier one finished, and one of them ran into the unique index
C1_Witness ==
  /\ AllIdle
  /\ \E i, j \in 1..Len(done) :
       /\ i < j
       /\ StartedCheckout(done[i], 1) /\ StartedCheckout(done[j], 1)
       /\ done[j].doneBefore < i
       /\ done[j].status /= "ok"
  /\ CountType(events, 1, "checkout_started") = 1

\* C10: a checkout_started notification for a session that already has a
\* checkout_started event reports success: no exception escapes the handler
\* and no error status is answered when the unique index is hit.
C10_DuplicateReportsSuccess ==
  \A i \in 1..Len(done) :
    (StartedCheckout(done[i], done[i].sid) /\ done[i].hadStarted)
      => done[i].status = "ok"

----------------------------------------------------------------------------
(* Cart notifications: cart webhooks and pixel cart events, starting from  *)
(* an empty store.                                                         *)

CartNotifs == 2    \* cart notifications processed in one behaviour

CartTopics == {"CARTS_CREATE", "CARTS_UPDATE"}

\* the pixel's cart events
CartPixel == PixelPayloads(CartTypes, Variants, PixelPrices)

InitCart == InitStore(<<>>, <<>>)

NextCart ==
  \/ \E p \in Procs :
       CartsFind(p, CartNotifs, {"T1"}, CartTopics, Tokens, Snapshots, {NoId})
  \/ \E p \in Procs : CartsUpsert(p)
  \/ \E p \in Procs : CartsCreateEvent(p)
  \/ \E p \in Procs : CartsUpdate(p)
  \/ \E p \in Procs : CartsBroadcast(p)
  \/ \E p \in Procs :
       EventsUpsert(p, CartNotifs, {"T1"}, Tokens, CartPixel, {NoId})
  \/ \E p \in Procs : EventsCreate(p)
  \/ \E p \in Procs : EventsRecalc(p)
  \/ \E p \in Procs : EventsUpdate(p)
  \/ \E p \in Procs : EventsBroadcast(p)

SpecCart == InitCart /\ [][NextCart]_vars

SamePayload(d, e) ==
  /\ d.kind = e.kind /\ d.topic = e.topic /\ d.shopId = e.shopId
  /\ d.token = e.token /\ d.lineItems = e.lineItems /\ d.customerId = e.customerId

\* C3: processing the identical cart.updated notification a second time,
\* after the first processing has completed, appends no event and leaves
\* cartTotal and itemCount as the first processing left them.
C3_ReplayIsIdempotent ==
  (AllIdle /\ Len(done) = 2 /\ done[2].doneBefore = 1
   /\ done[1].kind = "cart" /\ done[1].topic = "CARTS_UPDATE"
   /\ SamePayload(done[1], done[2]))
    => /\ done[2].after = done[1].after
       /\ done[2].cartTotal = done[1].cartTotal
       /\ done[2].itemCount = done[1].itemCount

\* net quantity of the cart_add (+) and cart_remove (-) events of a session
RECURSIVE NetQuantity(_)
NetQuantity(evs) ==
  IF evs = <<>> THEN 0
  ELSE (IF evs[1].eventType = "cart_add" THEN evs[1].quantity
        ELSE IF evs[1].eventType = "cart_remove" THEN 0 - evs[1].quantity
        ELSE 0) + NetQuantity(Tail(evs))

\* C5: whenever no handler is mid-flight, itemCount equals the net sum of
\* the quantity deltas of the session's cart_add and cart_remove events,
\* floored at zero.
C5_ItemCountIsNetSum ==
  AllIdle => \A sid \in SessionIds :
    sessions[sid].itemCount = Max0(NetQuantity(EventsOf(events, sid)))

C9_DuplicateDeliveryOnce ==
  (AllIdle /\ Len(done) = 2 /\ done[1].kind = "cart"
   /\ SamePayload(done[1], done[2]) /\ DistinctKeys(done[1].lineItems)
   /\ done[2].sid /= 0)
    => \A k \in Variants :
         Believed(EventsOf(events, done[2].sid), k) = SnapQty(done[1].lineItems, k)

----------------------------------------------------------------------------
(* The funnel of one session: every kind of notification on a session that *)
(* is Browsing or has reached Checkout.                                    *)

CheckoutLog ==
  <<CartEventRow(1, "cart_add", "p1", "v1", 1, UnitPrice),
    CartEventRow(1, "checkout_started", NoId, NoId, 0, 0)>>

\* orders with and without a cart_token, with and without a customer
OrderTokens == {"tok1", NoToken}
OrderCustomers == {NoId, "c1"}

\* the pixel events of the funnel
FunnelPixel ==
  PixelPayloads({"page_view", "checkout_started", "checkout_completed", "cart_add"},
                {"v1"}, {UnitPrice})

\* cart snapshots that empty the cart or raise the quantity
FunnelSnaps == {<<>>, <<LineItem("v1", 2)>>}

InitFunnel ==
  \/ InitStore(<<ApplyUpdate(SessionWithLog("T1", "tok1", BrowsingLog),
                   [customerId |-> "c1"])>>,
               BrowsingLog)
  \/ InitStore(<<ApplyUpdate(SessionWithLog("T1", "tok1", CheckoutLog),
                   [checkoutStarted |-> TRUE, customerId |-> "c1"])>>,
               CheckoutLog)

NextFunnel ==
  \/ \E p \in Procs :
       OrdersFind(p, MaxNotifs, {"T1"}, OrderTokens, {"999"}, OrderCustomers)
  \/ \E p \in Procs : OrdersUpdate(p)
  \/ \E p \in Procs : OrdersCreateEvent(p)
  \/ \E p \in Procs : OrdersBroadcast(p)
  \/ \E p \in Procs :
       EventsUpsert(p, MaxNotifs, {"T1"}, Tokens, FunnelPixel, {NoId})
  \/ \E p \in Procs : EventsCreate(p)
  \/ \E p \in Procs : EventsRecalc(p)
  \/ \E p \in Procs : EventsAbandon(p)
  \/ \E p \in Procs : EventsUpdate(p)
  \/ \E p \in Procs : EventsBroadcast(p)
  \/ \E p \in Procs :
       CheckoutsFind(p, MaxNotifs, {"T1"}, Tokens, {<<>>}, {NoId})
  \/ \E p \in Procs : CheckoutsUpdate(p)
  \/ \E p \in Procs : CheckoutsCreateStarted(p)
  \/ \E p \in Procs : CheckoutsBroadcast(p)
  \/ \E p \in Procs :
       CartsFind(p, MaxNotifs, {"T1"}, {"CARTS_UPDATE"}, Tokens, FunnelSnaps, {NoId})
  \/ \E p \in Procs : CartsCreateEvent(p)
  \/ \E p \in Procs : CartsUpdate(p)
  \/ \E p \in Procs : CartsBroadcast(p)

SpecFunnel == InitFunnel /\ [][NextFunnel]_vars

\* task p takes a step of a notification it was accepted with for session sid
Acts(p, sid) == pc[p] /= "idle" /\ pc'[p] /= pc[p] /\ local[p].sid = sid

\* the notification task p works on was accepted when sid was already Converted
AcceptedConverted(p) == local[p].cartSession.orderPlaced

----------------------------------------------------------------------------
(* The hub on its own: viewers connect, disconnect and break while         *)
(* handlers publish.                                                       *)

MaxPubs == 2       \* broadcasts in one behaviour of the hub model

InitHub ==
  /\ sessions = <<>>
  /\ events = <<>>
  /\ pc = [p \in Procs |-> "idle"]
  /\ local = [p \in Procs |-> Idle]
  /\ done = <<>>
  /\ started = 0
  /\ clients = <<>>
  /\ open = [c \in ClientIds |-> TRUE]
  /\ received = [c \in ClientIds |-> 0]
  /\ pubs = <<>>
  /\ conn = ConnsOf(clients, ClientIds)
  /\ modules = LoadedOnce
  /\ images = NoImages

NextHub ==
  \/ \E c \in ClientIds, shopId \in Shops : AddClient(c, shopId)
  \/ \E c \in ClientIds : Abort(c)
  \/ \E c \in ClientIds : StreamFails(c)
  \/ \E shopId \in Shops : HubBroadcast(shopId, MaxPubs)

SpecHub == InitHub /\ [][NextHub]_vars

ShopOf(cl, c) == (CHOOSE i \in 1..Len(cl) : cl[i].id = c)

\* C7: a publish to tenant T sends the message exactly once to every healthy
\* connection of T and keeps it registered, removes every connection of T
\* whose send throws, and returns normally.
C7_BroadcastIsolation ==
  [][Len(pubs') > Len(pubs) =>
       /\ ~pubs'[Len(pubs')].raised
       /\ \A c \in Registered(clients) :
            IF clients[ShopOf(clients, c)].shopId /= pubs'[Len(pubs')].shopId
            THEN c \in Registered(clients') /\ received'[c] = received[c]
            ELSE IF open[c]
            THEN c \in Registered(clients') /\ received'[c] = received[c] + 1
            ELSE c \notin Registered(clients') /\ received'[c] = received[c]]_vars

\* a publish found a healthy and a failing connection of its tenant
C7_Witness ==
  /\ pubs /= <<>>
  /\ pubs[Len(pubs)].sent /= {}
  /\ pubs[Len(pubs)].removed /= {}
  /\ \E c \in pubs[Len(pubs)].sent : c \in Registered(clients)

----------------------------------------------------------------------------
(* Repeat checkout notifications on a session whose log is empty of        *)
(* checkout events, holds a finished checkout, or holds a finished         *)
(* checkout followed by later cart changes.                                *)

\* a checkout_started row a pixel event with a client timestamp left
StartedAhead ==
  [CartEventRow(1, "checkout_started", NoId, NoId, 0, 0) EXCEPT !.ahead = TRUE]

\* TakeN later cart changes of one unit each
LaterAdds == [i \in 1..TakeN |-> CartEventRow(1, "cart_add", "p1", "v1", 1, UnitPrice)]

CheckedOutLog ==
  BrowsingLog \o <<CartEventRow(1, "checkout_started", NoId, NoId, 0, 0),
                   CartEventRow(1, "checkout_item", "p1", "v1", 1, UnitPrice)>>

LongLog ==
  BrowsingLog \o <<StartedAhead,
                   CartEventRow(1, "checkout_item", "p1", "v1", 1, UnitPrice)>>
              \o LaterAdds

ItemLogs == {BrowsingLog, CheckedOutLog, LongLog}

\* the pixel's checkout_started from a browser whose clock runs ahead
AheadPixel == AheadOfClock(PixelPayloads({"checkout_started"}, {}, {}))

InitItems ==
  \E log \in ItemLogs :
    InitStore(<<ApplyUpdate(SessionWithLog("T1", "tok1", log),
                  [checkoutStarted |-> log /= BrowsingLog])>>, log)

NextItems ==
  \/ \E p \in Procs :
       CheckoutsFind(p, MaxNotifs, {"T1"}, Tokens, CheckoutSnaps, {NoId})
  \/ \E p \in Procs : CheckoutsUpdate(p)
  \/ \E p \in Procs : CheckoutsCreateStarted(p)
  \/ \E p \in Procs : CheckoutsCreateItem(p)
  \/ \E p \in Procs : CheckoutsBroadcast(p)
  \/ \E p \in Procs : EventsUpsert(p, MaxNotifs, {"T1"}, Tokens, AheadPixel, {NoId})
  \/ \E p \in Procs : EventsCreate(p)
  \/ \E p \in Procs : EventsUpdate(p)
  \/ \E p \in Procs : EventsBroadcast(p)

SpecItems == InitItems /\ [][NextItems]_vars

\* the session of task p held a checkout_item event when p was accepted
HadItems(p) ==
  \E i \in 1..local[p].before :
    events[i].sessionId = local[p].sid /\ events[i].eventType = "checkout_item"

\* C11: a checkout notification accepted when its session already holds a
\* checkout_item event appends no checkout_item event in any of its steps.
C11_ItemBatchOnce ==
  [][\A p \in Procs :
       (local[p].kind = "checkout" /\ HadItems(p) /\ local'[p] /= local[p])
         => CountType(events', local[p].sid, "checkout_item")
              = CountType(events, local[p].sid, "checkout_item")]_vars

----------------------------------------------------------------------------
(* Webhook deliveries with tokens that match a session, match none, or are *)
(* missing, for two tenants; the store holds one Browsing session of T1.   *)

WebhookTokens == {"tok1", "tok2", NoToken}

InitWebhooks == InitStore(<<SessionWithLog("T1", "tok1", BrowsingLog)>>, BrowsingLog)

NextWebhooks ==
  \/ \E p \in Procs :
       CartsFind(p, MaxNotifs, {"T1"}, {"CARTS_UPDATE"}, WebhookTokens,
                 CheckoutSnaps, {NoId})
  \/ \E p \in Procs : CartsUpsert(p)
  \/ \E p \in Procs : CartsCreateEvent(p)
  \/ \E p \in Procs : CartsUpdate(p)
  \/ \E p \in Procs : CartsBroadcast(p)
  \/ \E p \in Procs :
       CheckoutsFind(p, MaxNotifs, Shops, WebhookTokens, {<<>>}, {NoId})
  \/ \E p \in Procs : CheckoutsUpdate(p)
  \/ \E p \in Procs : CheckoutsCreateStarted(p)
  \/ \E p \in Procs : CheckoutsBroadcast(p)
  \/ \E p \in Procs :
       OrdersFind(p, MaxNotifs, Shops, WebhookTokens, {"999"}, {NoId})
  \/ \E p \in Procs : OrdersUpdate(p)
  \/ \E p \in Procs : OrdersCreateEvent(p)
  \/ \E p \in Procs : OrdersBroadcast(p)

SpecWebhooks == InitWebhooks /\ [][NextWebhooks]_vars

\* the notification that finished in this step
JustDone == done'[Len(done')]

\* C12: when every delivery of order.created has finished, a converted
\* session holds exactly one checkout_completed event.
C12_OneCheckoutCompleted ==
  AllIdle =>
    \A sid \in SessionIds :
      sessions[sid].orderPlaced
        => CountType(events, sid, "checkout_completed") = 1

C14_MissingTokenDropped ==
  [][(/\ Len(done') > Len(done)
      /\ JustDone.kind \in {"cart", "checkout", "order"}
      /\ JustDone.token = NoToken)
       => /\ JustDone.status = "ok"
          /\ UNCHANGED <<sessions, events>>]_vars

----------------------------------------------------------------------------
(* Loading sse.server: every importing module has it evaluated, in any      *)
(* order and again on a reload, under each NODE_ENV.                        *)

MaxLoads == 4      \* evaluations of sse.server in one behaviour

NodeEnvs == {"development", "test", "production"}

InitModules ==
  /\ sessions = <<>>
  /\ events = <<>>
  /\ pc = [p \in Procs |-> "idle"]
  /\ local = [p \in Procs |-> Idle]
  /\ done = <<>>
  /\ started = 0
  /\ clients = <<>>
  /\ open = [c \in ClientIds |-> TRUE]
  /\ received = [c \in ClientIds |-> 0]
  /\ pubs = <<>>
  /\ conn = ConnsOf(clients, ClientIds)
  /\ modules \in {[nodeEnv |-> e, global |-> 0, made |-> 0, loads |-> 0,
                   held |-> [m \in Importers |-> 0]] : e \in NodeEnvs}
  /\ images = NoImages

\* the module graph of importer m evaluates sse.server
LoadModule(m) ==
  /\ modules.loads < MaxLoads
  /\ modules' = Evaluate(modules, m)
  /\ UNCHANGED <<store, pc, local, done, started, clients, open, received,
                 pubs, conn, images>>

NextModules == \E m \in Importers : LoadModule(m)

SpecModules == InitModules /\ [][NextModules]_vars

\* C15: all the modules that have loaded sse.server (the publishing
\* handlers and the SSE endpoint) hold the same SSEManager instance, however
\* often and in whatever order the module was evaluated.
C15_SingleInstance ==
  \A a, b \in Importers :
    (modules.held[a] /= 0 /\ modules.held[b] /= 0)
      => modules.held[a] = modules.held[b]

----------------------------------------------------------------------------
(* The SSE endpoint (app.api.sse.tsx): viewers request a stream, the        *)
(* loader looks the shop up, checks the cap and starts the stream; requests *)
(* abort, streams break, the keep-alive fires and handlers publish.         *)

\* the shopId parameter of a request: two shops, an unknown one, none
ViewerShops == {"T1", "T2", "T9", NoId}

InitViewers ==
  /\ sessions = <<>>
  /\ events = <<>>
  /\ pc = [p \in Procs |-> "idle"]
  /\ local = [p \in Procs |-> Idle]
  /\ done = <<>>
  /\ started = 0
  /\ clients = <<>>
  /\ open = [c \in ClientIds |-> TRUE]
  /\ received = [c \in ClientIds |-> 0]
  /\ pubs = <<>>
  /\ conn = ConnsOf(clients, ClientIds)
  /\ modules = LoadedOnce
  /\ images = NoImages

\* the loader receives a request: 400 without the parameter, otherwise it
\* awaits prisma.shop.findUnique
SseRequest(c, shopId) ==
  /\ conn[c].phase = "new"
  /\ conn' = [conn EXCEPT ![c] =
       IF shopId = NoId
       THEN [@ EXCEPT !.phase = "done", !.status = 400]
       ELSE [@ EXCEPT !.phase = "findShop", !.shopId = shopId]]
  /\ UNCHANGED <<store, pc, local, done, started, clients, open, received,
                 pubs, modules, images>>

\* shop.findUnique resolves: 404 for an unknown shop, otherwise the loader
\* awaits prisma.session.findFirst
SseShopFound(c) ==
  /\ conn[c].phase = "findShop"
  /\ conn' = [conn EXCEPT ![c] =
       IF conn[c].shopId \in Shops
       THEN [@ EXCEPT !.phase = "findSession"]
       ELSE [@ EXCEPT !.phase = "done", !.status = 404]]
  /\ UNCHANGED <<store, pc, local, done, started, clients, open, received,
                 pubs, modules, images>>

\* session.findFirst resolves: 403 when the app is not installed, 503 when
\* getClientCount is at the cap, otherwise the stream is built and started
SseConnect(c, active) ==
  /\ conn[c].phase = "findSession"
  /\ IF ~active
     THEN /\ conn' = [conn EXCEPT ![c] = [@ EXCEPT !.phase = "done", !.status = 403]]
          /\ UNCHANGED <<clients, open, received>>
     ELSE IF ClientCount(clients, conn[c].shopId) >= MaxConnectionsPerShop
     THEN /\ conn' = [conn EXCEPT ![c] = [@ EXCEPT !.phase = "done", !.status = 503]]
          /\ UNCHANGED <<clients, open, received>>
     ELSE StreamStart(c, conn[c].shopId)
  /\ UNCHANGED <<store, pc, local, done, started, pubs, modules, images>>

\* request.signal aborts while the loader runs or the stream is served.  A
\* listener registered by start() runs at once: clearInterval, removeClient,
\* controller.close().  Before start() nothing listens, and a listener
\* added to a signal that has aborted is never called.
SseAbort(c) ==
  /\ conn[c].phase \in {"findShop", "findSession", "streaming"}
  /\ ~conn[c].aborted
  /\ IF conn[c].listener
     THEN /\ clients' = RemoveClientFrom(clients, c)
          /\ open' = [open EXCEPT ![c] = FALSE]
          /\ conn' = [conn EXCEPT ![c] = [@ EXCEPT !.aborted = TRUE, !.timer = FALSE]]
     ELSE /\ conn' = [conn EXCEPT ![c] = [@ EXCEPT !.aborted = TRUE]]
          /\ UNCHANGED <<clients, open>>
  /\ UNCHANGED <<store, pc, local, done, started, received, pubs, modules, images>>

\* the keep-alive interval fires: a ping is enqueued (pings are not
\* counted in received); when the enqueue throws the interval is cleared
\* and the client removed
KeepAlive(c) ==
  /\ conn[c].timer
  /\ IF open[c]
     THEN UNCHANGED <<clients, conn>>
     ELSE /\ clients' = RemoveClientFrom(clients, c)
          /\ conn' = [conn EXCEPT ![c] = [@ EXCEPT !.timer = FALSE]]
  /\ UNCHANGED <<store, pc, local, done, started, open, received, pubs, modules, images>>

NextViewers ==
  \/ \E c \in DOMAIN conn, shopId \in ViewerShops : SseRequest(c, shopId)
  \/ \E c \in DOMAIN conn : SseShopFound(c)
  \/ \E c \in DOMAIN conn, active \in BOOLEAN : SseConnect(c, active)
  \/ \E c \in DOMAIN conn : SseAbort(c)
  \/ \E c \in DOMAIN conn : StreamFails(c)
  \/ \E c \in DOMAIN conn : KeepAlive(c)
  \/ \E shopId \in Shops : HubBroadcast(shopId, MaxPubs)

SpecViewers == InitViewers /\ [][NextViewers]_vars

----------------------------------------------------------------------------
(* The endpoint next to a tenant one connection short of the cap.           *)

CapSpare == 1      \* requests beyond the cap in one behaviour

CapIds == 1..(MaxConnectionsPerShop + CapSpare)

\* the connections that close or break in the cap model
CapClosers == {c : c \in (MaxConnectionsPerShop - 1)..(MaxConnectionsPerShop + CapSpare)}

InitCap ==
  /\ sessions = <<>>
  /\ events = <<>>
  /\ pc = [p \in Procs |-> "idle"]
  /\ local = [p \in Procs |-> Idle]
  /\ done = <<>>
  /\ started = 0
  /\ clients = [i \in 1..(MaxConnectionsPerShop - 1) |-> [id |-> i, shopId |-> "T1"]]
  /\ open = [c \in CapIds |-> TRUE]
  /\ received = [c \in CapIds |-> IF c < MaxConnectionsPerShop THEN 1 ELSE 0]
  /\ pubs = <<>>
  /\ conn = ConnsOf(clients, CapIds)
  /\ modules = LoadedOnce
  /\ images = NoImages

NextCap ==
  \/ \E c \in DOMAIN conn, shopId \in Shops : SseRequest(c, shopId)
  \/ \E c \in DOMAIN conn : SseShopFound(c)
  \/ \E c \in DOMAIN conn, active \in BOOLEAN : SseConnect(c, active)
  \/ \E c \in CapClosers : SseAbort(c)
  \/ \E c \in CapClosers : StreamFails(c)
  \/ \E c \in DOMAIN conn : KeepAlive(c)
  \/ \E shopId \in Shops : HubBroadcast(shopId, 1)

SpecCap == InitCap /\ [][NextCap]_vars

\* C16: no tenant ever holds more than the maximum of connections; addClient
\* for a tenant at the maximum returns false, closes the offered controller
\* and leaves the registry as it was; and the endpoint answers a request it
\* finds at the maximum with a 503 (or the 403 of a shop without a session),
\* registering nothing.
C16_ConnectionCap ==
  /\ [](\A shopId \in Shops :
          /\ ClientCount(clients, shopId) <= MaxConnectionsPerShop
          /\ ClientCount(clients, shopId) = MaxConnectionsPerShop =>
               \A c \in DOMAIN conn \ Registered(clients) :
                  AddClientTo(clients, c, shopId)
                    = [clients |-> clients, ok |-> FALSE, closed |-> TRUE])
  /\ [][\A c \in DOMAIN conn :
          (/\ conn[c].phase = "findSession"
           /\ conn'[c].phase /= "findSession"
           /\ ClientCount(clients, conn[c].shopId) = MaxConnectionsPerShop)
            => /\ conn'[c].status \in {403, 503}
               /\ clients' = clients
               /\ open'[c] = open[c]]_vars

\* a request for a tenant holding the maximum was answered 503
C16_Witness ==
  \E c \in DOMAIN conn :
    /\ conn[c].status = 503
    /\ ClientCount(clients, conn[c].shopId) = MaxConnectionsPerShop
    /\ c \notin Registered(clients)

----------------------------------------------------------------------------
(* Claims on the endpoint and the hub together *)

\* the step runs removeClient(c): the abort listener, or a keep-alive whose
\* enqueue throws
RemoveCalled(c) ==
  \/ conn[c].listener /\ ~conn[c].aborted /\ conn'[c].aborted
  \/ conn[c].timer /\ ~conn'[c].timer

\* C17: removeClient for an id that is not registered (never registered, or
\* removed before) leaves the registry unchanged, a second removal changes
\* nothing more, and a connection that was removed receives no further
\* published message.
C17_RemoveIsIdempotent ==
  /\ [](\A c \in DOMAIN conn :
          /\ c \notin Registered(clients) => RemoveClientFrom(clients, c) = clients
          /\ RemoveClientFrom(RemoveClientFrom(clients, c), c)
               = RemoveClientFrom(clients, c))
  /\ [][\A c \in DOMAIN conn :
          /\ (RemoveCalled(c) /\ c \notin Registered(clients)) => clients' = clients
          /\ (conn[c].phase = "streaming" /\ c \notin Registered(clients))
               => received'[c] = received[c] /\ c \notin Registered(clients')]_vars

\* a broadcast removed a broken connection, the request aborted afterwards
\* and its listener called removeClient again, and a later broadcast went to
\* the other connections of the tenant
C17_Witness ==
  \E c \in DOMAIN conn :
    /\ conn[c].aborted
    /\ Len(pubs) = 2
    /\ c \in pubs[1].removed
    /\ pubs[2].shopId = conn[c].shopId
    /\ pubs[2].sent /= {}

\* C18: a publish to a tenant without connections returns normally and
\* changes neither the registry nor any stream; nothing is kept for later:
\* a connection that registers holds the connected message alone, whatever
\* was published before.
C18_EmptyPublishIsNoOp ==
  [][/\ (/\ Len(pubs') > Len(pubs)
         /\ ShopClients(clients, pubs'[Len(pubs')].shopId) = <<>>)
          => /\ ~pubs'[Len(pubs')].raised
             /\ clients' = clients
             /\ received' = received
             /\ open' = open
     /\ \A c \in DOMAIN conn :
          (c \notin Registered(clients) /\ c \in Registered(clients'))
            => received'[c] = 1]_vars

\* a publish found no connection of its tenant and a viewer of that tenant
\* subscribed afterwards
C18_Witness ==
  /\ Len(pubs) = 1
  /\ pubs[1].sent = {} /\ pubs[1].removed = {}
  /\ \E i \in 1..Len(clients) :
       clients[i].shopId = pubs[1].shopId /\ received[clients[i].id] = 1

\* the ids registered for a tenant
Subscribers(cl, shopId) == {cl[i].id : i \in {j \in 1..Len(cl) : cl[j].shopId = shopId}}

\* C19: a publish to tenant T puts the message once on the stream of every
\* connection subscribed to T whose stream accepts it, on none twice, and
\* touches no other connection: the connections of other tenants get
\* nothing and stay registered.
C19_TenantDelivery ==
  [][Len(pubs') > Len(pubs) =>
       LET T == pubs'[Len(pubs')].shopId
           subs == Subscribers(clients, T)
       IN /\ \A c \in subs : received'[c] <= received[c] + 1
          /\ \A c \in subs : open[c] => received'[c] = received[c] + 1
          /\ pubs'[Len(pubs')].sent \subseteq subs
          /\ pubs'[Len(pubs')].removed \subseteq subs
          /\ \A c \in DOMAIN conn \ subs :
               /\ received'[c] = received[c]
               /\ c \in Registered(clients) <=> c \in Registered(clients')]_vars

\* a connection of one tenant got that tenant's publish and stayed
\* registered, untouched, through a delivered publish to the other tenant
C19_Witness ==
  /\ Len(pubs) = 2
  /\ pubs[1].shopId /= pubs[2].shopId
  /\ pubs[2].sent /= {}
  /\ \E x \in pubs[1].sent : x \in Registered(clients) /\ received[x] = 2

----------------------------------------------------------------------------
(* Teardown of viewer connections.  The event loop runs every timer that is *)
(* due and resumes every loader whose query has resolved, so the keep-alive *)
(* and the loader's steps are weakly fair; aborts, broken streams, requests *)
(* and publishes are up to the environment.                                 *)

MaxLive == 2       \* viewer requests in the teardown model

LiveIds == {c : c \in 1..MaxLive}

InitTeardown ==
  /\ sessions = <<>>
  /\ events = <<>>
  /\ pc = [p \in Procs |-> "idle"]
  /\ local = [p \in Procs |-> Idle]
  /\ done = <<>>
  /\ started = 0
  /\ clients = <<>>
  /\ open = [c \in LiveIds |-> TRUE]
  /\ received = [c \in LiveIds |-> 0]
  /\ pubs = <<>>
  /\ conn = ConnsOf(clients, LiveIds)
  /\ modules = LoadedOnce
  /\ images = NoImages

SpecTeardown ==
  /\ InitTeardown
  /\ [][NextViewers]_vars
  /\ \A c \in LiveIds :
       /\ WF_vars(KeepAlive(c))
       /\ WF_vars(SseShopFound(c))
       /\ WF_vars(\E active \in BOOLEAN : SseConnect(c, active))

\* the transport of request c has signalled closure: the request aborted,
\* or the stream no longer accepts an enqueue
Closed(c) == conn[c].aborted \/ (conn[c].phase = "streaming" /\ ~open[c])

\* C20: every connection whose transport signalled closure, at whatever
\* point of the request, is eventually out of the registry with its
\* keep-alive interval cleared.
C20_ClosedIsTornDown ==
  \A c \in LiveIds :
    Closed(c) ~> (c \notin Registered(clients) /\ ~conn[c].timer)

----------------------------------------------------------------------------
(* Identity: every kind of notification, with and without a customer, on a *)
(* session that starts without one.                                        *)

InitIdentity == InitStore(<<SessionWithLog("T1", "tok1", BrowsingLog)>>, BrowsingLog)

NextIdentity ==
  \/ \E p \in Procs :
       CartsFind(p, CartNotifs, {"T1"}, {"CARTS_UPDATE"}, Tokens, FunnelSnaps,
                 OrderCustomers)
  \/ \E p \in Procs : CartsCreateEvent(p)
  \/ \E p \in Procs : CartsUpdate(p)
  \/ \E p \in Procs : CartsBroadcast(p)
  \/ \E p \in Procs :
       CheckoutsFind(p, CartNotifs, {"T1"}, Tokens, {<<>>}, OrderCustomers)
  \/ \E p \in Procs : CheckoutsUpdate(p)
  \/ \E p \in Procs : CheckoutsCreateStarted(p)
  \/ \E p \in Procs : CheckoutsBroadcast(p)
  \/ \E p \in Procs :
       OrdersFind(p, CartNotifs, {"T1"}, Tokens, {"999"}, OrderCustomers)
  \/ \E p \in Procs : OrdersUpdate(p)
  \/ \E p \in Procs : OrdersCreateEvent(p)
  \/ \E p \in Procs : OrdersBroadcast(p)
  \/ \E p \in Procs :
       EventsUpsert(p, CartNotifs, {"T1"}, Tokens, CheckoutPixel, OrderCustomers)
  \/ \E p \in Procs : EventsCreate(p)
  \/ \E p \in Procs : EventsAbandon(p)
  \/ \E p \in Procs : EventsUpdate(p)
  \/ \E p \in Procs : EventsBroadcast(p)

SpecIdentity == InitIdentity /\ [][NextIdentity]_vars

\* C21: no step of any handler takes a session's customerId from a value
\* back to none.
C21_IdentityKept ==
  [][\A sid \in SessionIds :
       sessions[sid].customerId /= NoId => sessions'[sid].customerId /= NoId]_vars

----------------------------------------------------------------------------
(* Further claims on the funnel *)

\* the step records an abandonment for sid: a checkout_abandoned event is
\* appended or the flag is raised
RecordsAbandonment(sid) ==
  \/ CountType(events', sid, "checkout_abandoned")
       > CountType(events, sid, "checkout_abandoned")
  \/ sessions'[sid].checkoutAbandoned /\ ~sessions[sid].checkoutAbandoned

\* C22: an abandonment is recorded only by a page_view notification that
\* found its session in Checkout (started, not abandoned, no order), and
\* never for a session that is Converted at the time it is recorded.
C22_AbandonOnlyInCheckout ==
  [][\A sid \in SessionIds : RecordsAbandonment(sid) =>
       /\ \E p \in Procs :
            /\ Acts(p, sid)
            /\ local[p].eventType = "page_view"
            /\ local[p].cartSession.checkoutStarted
            /\ ~local[p].cartSession.checkoutAbandoned
            /\ ~local[p].cartSession.orderPlaced
       /\ ~sessions[sid].orderPlaced
       /\ CountType(events, sid, "checkout_completed") = 0]_vars

\* task p finishes, in this step, a notification it processed with no other
\* notification in flight or finished since it was accepted
FinishesAlone(p) ==
  /\ pc[p] /= "idle" /\ pc'[p] = "idle"
  /\ \A q \in Procs \ {p} : pc[q] = "idle"
  /\ local[p].doneBefore = Len(done)

\* C23: when a checkout_started notification (the checkout webhook, or the
\* pixel event) has been processed for a session that was marked abandoned
\* when it arrived, the session is in Checkout again: started, not abandoned.
C23_RestartClearsAbandonment ==
  [][\A p \in Procs :
       (/\ FinishesAlone(p)
        /\ local[p].sid /= 0
        /\ \/ local[p].kind = "checkout"
           \/ local[p].kind = "pixel" /\ local[p].eventType = "checkout_started"
        /\ local[p].cartSession.checkoutAbandoned
        /\ ~local[p].cartSession.orderPlaced)
         => /\ sessions'[local[p].sid].checkoutStarted
            /\ ~sessions'[local[p].sid].checkoutAbandoned]_vars

----------------------------------------------------------------------------
(* Store failures: webhooks processed one at a time on a store that may     *)
(* become unavailable at any operation a handler awaits.  No handler opens  *)
(* a transaction: every operation commits on its own.                       *)

\* the store operation task p awaits rejects.  The try/catch of the cart
\* and order handlers answers 500; the checkout handler has none and the
\* rejection escapes to the framework.  What was written before stays.
StoreUnavailable(p) ==
  /\ pc[p] /= "idle"
  /\ UNCHANGED <<sessions, events, started, hub>>
  /\ Return(p, local[p],
            IF local[p].kind = "checkout" THEN "unhandled" ELSE "error")

InitFaults ==
  \/ InitStore(<<>>, <<>>)
  \/ InitStore(<<SessionWithLog("T1", "tok1", BrowsingLog)>>, BrowsingLog)

NextFaults ==
  \/ \E p \in {1} :
       CartsFind(p, CartNotifs, {"T1"}, CartTopics, Tokens, FunnelSnaps, {NoId})
  \/ \E p \in {1} : CartsUpsert(p)
  \/ \E p \in {1} : CartsCreateEvent(p)
  \/ \E p \in {1} : CartsUpdate(p)
  \/ \E p \in {1} : CartsBroadcast(p)
  \/ \E p \in {1} :
       CheckoutsFind(p, CartNotifs, {"T1"}, Tokens, {<<>>}, {NoId})
  \/ \E p \in {1} : CheckoutsUpdate(p)
  \/ \E p \in {1} : CheckoutsCreateStarted(p)
  \/ \E p \in {1} : CheckoutsBroadcast(p)
  \/ \E p \in {1} :
       OrdersFind(p, CartNotifs, {"T1"}, Tokens, {"999"}, {NoId})
  \/ \E p \in {1} : OrdersUpdate(p)
  \/ \E p \in {1} : OrdersCreateEvent(p)
  \/ \E p \in {1} : OrdersBroadcast(p)
  \/ \E p \in {1} : StoreUnavailable(p)

SpecFaults == InitFaults /\ [][NextFaults]_vars

\* C24: a notification that ends in a failure leaves the store as it was
\* when the notification was accepted: the event log has its old length,
\* the session it found is the row it read, a session it did not find does
\* not exist.
C24_FailureIsAtomic ==
  [][\A p \in Procs :
       (/\ pc[p] /= "idle" /\ pc'[p] = "idle"
        /\ done'[Len(done')].status \in {"error", "unhandled"})
         => /\ events' = SubSeq(events', 1, local[p].before)
            /\ IF local[p].branch = "create"
               THEN FindSession(sessions', local[p].shopId, local[p].token) = 0
               ELSE sessions'[local[p].sid] = local[p].cartSession]_vars

\* the store after notification d has been processed from the store
\* (ss, evs) by its handler, alone and without a failure
ProcessedAlone(d, ss, evs) ==
  LET totals == [cartTotal |-> PayloadTotal(d.lineItems),
                 itemCount |-> PayloadCount(d.lineItems)]
      ident == IF d.customerId /= NoId THEN [customerId |-> d.customerId] ELSE <<>>
      sid == IF d.kind = "order"
             THEN OrderSession(ss, d.shopId, d.token, d.customerId)
             ELSE FindSession(ss, d.shopId, d.token)
      last == IF sid = 0 THEN <<>> ELSE EventsOf(evs, sid)
  IN IF d.kind = "cart" /\ sid /= 0
     THEN [sessions |-> [ss EXCEPT ![sid] = ApplyUpdate(@, totals @@ ident)],
           events |-> evs \o Additions(sid, d.lineItems, last)
                          \o Removals(sid, d.lineItems, last)]
     ELSE IF d.kind = "cart" /\ Len(d.lineItems) > 0
     THEN LET r == UpsertSession(ss, d.shopId, d.token,
                     [cartCreated |-> TRUE] @@ totals @@ ident, totals @@ ident)
          IN [sessions |-> r.rows, events |-> evs \o InitialAdds(r.id, d.lineItems)]
     ELSE IF d.kind = "checkout" /\ sid /= 0
     THEN [sessions |-> [ss EXCEPT ![sid] =
                           ApplyUpdate(@, [checkoutStarted |-> TRUE] @@ ident)],
           events |-> evs
             \o (IF HasType(RecentEvents(evs, sid), "checkout_started") THEN <<>>
                 ELSE <<CartEventRow(sid, "checkout_started", NoId, NoId, 0, 0)>>)
             \o (IF HasType(RecentEvents(evs, sid), "checkout_item") THEN <<>>
                 ELSE CheckoutItems(sid, d.lineItems))]
     ELSE IF d.kind = "order" /\ sid /= 0
     THEN [sessions |-> [ss EXCEPT ![sid] = ApplyUpdate(@,
                           [orderPlaced |-> TRUE, orderId |-> d.orderId] @@ ident)],
           events |-> evs \o <<CartEventRow(sid, "checkout_completed", NoId, NoId, 0, 0)>>]
     ELSE [sessions |-> ss, events |-> evs]

\* the store the first notification of a behaviour found
FirstStore ==
  IF done[1].before = 0 THEN [sessions |-> <<>>, events |-> <<>>]
  ELSE [sessions |-> <<SessionWithLog("T1", "tok1", BrowsingLog)>>,
        events |-> BrowsingLog]

\* C25: a notification that failed at a store operation and was then
\* delivered again and processed without failure leaves the sessions and
\* the event log that one failure-free processing of it leaves.
C25_RetryIsSafe ==
  (/\ AllIdle /\ Len(done) = 2
   /\ done[1].status \in {"error", "unhandled"}
   /\ done[2].status = "ok"
   /\ SamePayload(done[1], done[2]) /\ done[1].orderId = done[2].orderId)
    => [sessions |-> sessions, events |-> events]
         = ProcessedAlone(done[1], FirstStore.sessions, FirstStore.events)

----------------------------------------------------------------------------
(* The event log under the cart webhook and the dashboard loader (the      *)
(* loader in app.api.test-broadcast.tsx, lines 131-296).                    *)

\* the image the Admin API returns for a product
ImageOf(productId) == "img"

\* the loader's image backfill: for the events of the shop's sessions that
\* carry a product and no image, the images the Admin API returned are
\* written with cartEvent.updateMany; when the query fails nothing is written
LoaderBackfill(shopId, found) ==
  /\ \E i \in 1..Len(events) :
       /\ sessions[events[i].sessionId].shopId = shopId
       /\ events[i].productId /= NoId /\ events[i].variantImage = NoId
  /\ events' = [i \in 1..Len(events) |->
       IF /\ found
          /\ sessions[events[i].sessionId].shopId = shopId
          /\ events[i].productId /= NoId /\ events[i].variantImage = NoId
       THEN [events[i] EXCEPT !.variantImage = ImageOf(events[i].productId)]
       ELSE events[i]]
  /\ UNCHANGED <<sessions, pc, local, done, started, hub>>

InitLog == InitStore(<<SessionWithLog("T1", "tok1", BrowsingLog)>>, BrowsingLog)

NextLog ==
  \/ \E p \in Procs :
       CartsFind(p, CartNotifs, {"T1"}, {"CARTS_UPDATE"}, Tokens, FunnelSnaps, {NoId})
  \/ \E p \in Procs : CartsCreateEvent(p)
  \/ \E p \in Procs : CartsUpdate(p)
  \/ \E p \in Procs : CartsBroadcast(p)
  \/ \E found \in BOOLEAN : LoaderBackfill("T1", found)

SpecLog == InitLog /\ [][NextLog]_vars

\* C26: every event in the log stays in the log, at its place, with every
\* field as it was created (no operation of this model deletes a session).
C26_EventsAppendOnly ==
  [][/\ Len(events') >= Len(events)
     /\ \A i \in 1..Len(events) : events'[i] = events[i]]_vars

----------------------------------------------------------------------------
(* One visitor's funnel, notification after notification: cart created,     *)
(* cart updated, checkout created, order created, each processed to its end *)
(* before the next arrives, while viewers come and go.                      *)

\* the scenario's line item: variant v1 at price 10
ScenarioItem(q) == [LineItem("v1", q) EXCEPT !.price = 10]

InitScenario == InitStore(<<>>, <<>>)

NextScenario ==
  \/ \E p \in {1} :
       /\ started = 0
       /\ CartsFind(p, 1, {"T1"}, {"CARTS_CREATE"}, Tokens, {<<ScenarioItem(2)>>}, {NoId})
  \/ \E p \in {1} :
       /\ started = 1 /\ AllIdle
       /\ CartsFind(p, 2, {"T1"}, {"CARTS_UPDATE"}, Tokens, {<<ScenarioItem(1)>>}, {NoId})
  \/ \E p \in {1} : CartsUpsert(p)
  \/ \E p \in {1} : CartsCreateEvent(p)
  \/ \E p \in {1} : CartsUpdate(p)
  \/ \E p \in {1} : CartsBroadcast(p)
  \/ \E p \in {1} :
       /\ started = 2 /\ AllIdle
       /\ CheckoutsFind(p, 3, {"T1"}, Tokens, {<<>>}, {NoId})
  \/ \E p \in {1} : CheckoutsUpdate(p)
  \/ \E p \in {1} : CheckoutsCreateStarted(p)
  \/ \E p \in {1} : CheckoutsBroadcast(p)
  \/ \E p \in {1} :
       /\ started = 3 /\ AllIdle
       /\ OrdersFind(p, 4, {"T1"}, Tokens, {"999"}, {NoId})
  \/ \E p \in {1} : OrdersUpdate(p)
  \/ \E p \in {1} : OrdersCreateEvent(p)
  \/ \E p \in {1} : OrdersBroadcast(p)
  \/ \E c \in ClientIds, shopId \in Shops : AddClient(c, shopId)
  \/ \E c \in ClientIds : Abort(c)

SpecScenario == InitScenario /\ [][NextScenario]_vars

\* C27: after cart.created with [{v1, 2, 10}] the log is one cart_add of 2,
\* the totals are 20 and 2 and T1 was published to; after cart.updated with
\* [{v1, 1, 10}] the log gained one cart_remove of 1 and the totals are 10
\* and 1; after checkout.created it gained one checkout_started and the
\* session is in Checkout; after order.created 999 it gained one
\* checkout_completed and the session is Converted with orderId 999.
C27_ScenarioTrace ==
  /\ Len(done) >= 1 =>
       /\ done[1].status = "ok" /\ done[1].after = 1
       /\ done[1].cartTotal = 20 /\ done[1].itemCount = 2
       /\ events[1] = CartEventRow(1, "cart_add", "p1", "v1", 2, 10)
       /\ Len(sessions) = 1
       /\ sessions[1].shopId = "T1" /\ sessions[1].visitorId = "tok1"
       /\ Len(pubs) >= 1 /\ pubs[1].shopId = "T1"
  /\ Len(done) >= 2 =>
       /\ done[2].status = "ok" /\ done[2].after = 2
       /\ done[2].cartTotal = 10 /\ done[2].itemCount = 1
       /\ events[2] = CartEventRow(1, "cart_remove", "p1", "v1", 1, 10)
       /\ Len(pubs) >= 2 /\ pubs[2].shopId = "T1"
  /\ Len(done) >= 3 =>
       /\ done[3].status = "ok" /\ done[3].after = 3
       /\ events[3].eventType = "checkout_started"
       /\ sessions[1].checkoutStarted /\ ~sessions[1].checkoutAbandoned
       /\ (Len(done) = 3 /\ AllIdle) => ~sessions[1].orderPlaced
  /\ Len(done) >= 4 =>
       /\ done[4].status = "ok" /\ done[4].after = 4
       /\ events[4].eventType = "checkout_completed"
       /\ Len(events) = 4
       /\ sessions[1].orderPlaced /\ sessions[1].orderId = "999"
       /\ sessions[1].cartTotal = 10 /\ sessions[1].itemCount = 1

\* the four notifications have been processed and every publish reached a
\* viewer of T1
C27_Witness ==
  /\ Len(done) = 4 /\ AllIdle
  /\ Len(pubs) = 4
  /\ \A i \in 1..4 : pubs[i].sent /= {}

----------------------------------------------------------------------------
(* Further claims on the cart handlers *)

\* C28: when pixel cart events for one session, in whatever interleaving,
\* have all run to completion, the stored itemCount is the handler's
\* recompute over the session's complete add/remove log.
C28_CountFromCompleteLog ==
  (/\ AllIdle /\ Len(done) >= 1
   /\ \A i \in 1..Len(done) : done[i].kind = "pixel" /\ done[i].status = "ok")
    => \A sid \in SessionIds :
         sessions[sid].itemCount
           = RecalcItems(SelectSeq(EventsOf(events, sid), IsCartEvent))

----------------------------------------------------------------------------
(* Cart snapshots for a session whose log earlier notifications have left: *)
(* up to MaxNotifs cart.updated notifications, alone or overlapping.       *)

\* the cart emptied, variant v1 raised to two, and v1 replaced by v2
HealSnaps == {<<>>, <<LineItem("v1", 2)>>, <<LineItem("v2", 1)>>}

InitHeal == InitStore(<<SessionWithLog("T1", "tok1", BrowsingLog)>>, BrowsingLog)

NextHeal ==
  \/ \E p \in Procs :
       CartsFind(p, MaxNotifs, {"T1"}, {"CARTS_UPDATE"}, Tokens, HealSnaps, {NoId})
  \/ \E p \in Procs : CartsCreateEvent(p)
  \/ \E p \in Procs : CartsUpdate(p)
  \/ \E p \in Procs : CartsBroadcast(p)

SpecHeal == InitHeal /\ [][NextHeal]_vars

\* C29: when a cart snapshot notification has been processed with no other
\* handler in flight, the quantity replayed from the session's log equals the
\* snapshot's quantity for every variant key (0 for a key the snapshot lacks)
\* and itemCount is the snapshot's total quantity, whatever log the earlier
\* notifications left.
C29_SnapshotHeals ==
  [][\A p \in Procs :
       (FinishesAlone(p) /\ local[p].kind = "cart" /\ local[p].sid /= 0)
         => /\ \A k \in AllKeys :
                 Believed(EventsOf(events', local[p].sid), k)
                   = SnapQty(local[p].lineItems, k)
            /\ sessions'[local[p].sid].itemCount
                 = SeqSum([i \in 1..Len(local[p].lineItems) |->
                             local[p].lineItems[i].quantity])]_vars

----------------------------------------------------------------------------
(* Notifications and their broadcasts: every kind of notification on a     *)
(* session that is Browsing, or that started its checkout before its last  *)
(* TakeN cart changes.                                                     *)

\* a checkout started and followed by TakeN cart changes
StaleStartLog == CheckedOutLog \o LaterAdds

NotifyLogs == {BrowsingLog, StaleStartLog}

InitNotify ==
  \E log \in NotifyLogs :
    InitStore(<<ApplyUpdate(SessionWithLog("T1", "tok1", log),
                  [checkoutStarted |-> log /= BrowsingLog])>>, log)

NextNotify ==
  \/ \E p \in Procs :
       CartsFind(p, CartNotifs, {"T1"}, {"CARTS_UPDATE"}, Tokens, FunnelSnaps,
                 OrderCustomers)
  \/ \E p \in Procs : CartsCreateEvent(p)
  \/ \E p \in Procs : CartsUpdate(p)
  \/ \E p \in Procs : CartsBroadcast(p)
  \/ \E p \in Procs :
       CheckoutsFind(p, CartNotifs, {"T1"}, Tokens, CheckoutSnaps, OrderCustomers)
  \/ \E p \in Procs : CheckoutsUpdate(p)
  \/ \E p \in Procs : CheckoutsCreateStarted(p)
  \/ \E p \in Procs : CheckoutsCreateItem(p)
  \/ \E p \in Procs : CheckoutsBroadcast(p)
  \/ \E p \in Procs :
       OrdersFind(p, CartNotifs, {"T1"}, Tokens, {"999"}, OrderCustomers)
  \/ \E p \in Procs : OrdersUpdate(p)
  \/ \E p \in Procs : OrdersCreateEvent(p)
  \/ \E p \in Procs : OrdersBroadcast(p)

SpecNotify == InitNotify /\ [][NextNotify]_vars

\* the notification task p finishes in this step has appended an event or
\* left its session different from the row it read (p processed alone)
ChangedStore(p) ==
  /\ local[p].sid /= 0
  /\ \/ Len(events') > local[p].before
     \/ sessions'[local[p].sid] /= local[p].cartSession

\* the events of its session that task p appended (p processed alone)
NewEvents(p) ==
  EventsOf(SubSeq(events', local[p].before + 1, Len(events')), local[p].sid)

\* the events of the session re-read for the broadcast of task p
PayloadEvents(p) ==
  IF local[p].kind \in {"checkout", "order"}
  THEN RecentEvents(events', local[p].sid)
  ELSE EventsOf(events', local[p].sid)

Holds(payload, evs) ==
  \E off \in 0..(Len(payload) - Len(evs)) :
    SubSeq(payload, off + 1, off + Len(evs)) = evs

\* C30: a notification that appended events or changed its session, processed
\* with no other handler in flight, ends with exactly one broadcast, to the
\* session's tenant, of a re-read session holding the events it appended.
C30_BroadcastAfterPersist ==
  [][\A p \in Procs :
       (FinishesAlone(p) /\ ChangedStore(p))
         => /\ Len(pubs') = Len(pubs) + 1
            /\ pubs'[Len(pubs')].shopId = sessions'[local[p].sid].shopId
            /\ Holds(PayloadEvents(p), NewEvents(p))]_vars

----------------------------------------------------------------------------
(* Further claims on the viewer streams *)

\* C31: the first message a connection's stream receives is enqueued by the
\* step that starts the stream (the connected message of start()), never by a
\* publish; and a connection a broadcast or a keep-alive can reach (it is
\* registered, or its interval is armed) has already received that message.
C31_ConnectedFirst ==
  [][\A c \in DOMAIN conn :
       /\ (received[c] = 0 /\ received'[c] > 0)
            => /\ conn[c].phase = "findSession" /\ conn'[c].phase = "streaming"
               /\ received'[c] = 1
               /\ pubs' = pubs
       /\ (conn'[c].timer \/ c \in Registered(clients')) => received'[c] >= 1]_vars

\* a connection has received its connected message and then a broadcast
C31_Witness ==
  \E c \in DOMAIN conn :
    /\ received[c] >= 2
    /\ \E i \in 1..Len(pubs) : c \in pubs[i].sent

\* the high-water mark of a ReadableStream built without a queuing strategy
HighWaterMark == 1

\* C32: a publish does not grow the output queue of a viewer that is not
\* keeping up: for a viewer that reads nothing received[c] is the length of the
\* queue, and a publish enqueues onto it only while it is below the stream's
\* high-water mark (a viewer at the mark is dropped instead).
C32_BoundedEnqueue ==
  [][\A c \in DOMAIN conn :
       (Len(pubs') > Len(pubs) /\ received'[c] > received[c])
         => received[c] < HighWaterMark]_vars

----------------------------------------------------------------------------
(* The product-image cache (webhooks.carts.tsx, getProductImage): the calls *)
(* of one Promise.all, or of handlers running together, on a cache one      *)
(* entry short of its cap.                                                  *)

MaxLookups == 3    \* getProductImage calls in one behaviour

\* one product that is cached and three that are not
ImageKeys == {1, IMAGE_CACHE_MAX, IMAGE_CACHE_MAX + 1, IMAGE_CACHE_MAX + 2}

\* imageCache.has(cacheKey)
Cached(cache, key) == \E i \in 1..Len(cache) : cache[i].key = key

\* imageCache.get(cacheKey)
CachedUrl(cache, key) == cache[CHOOSE i \in 1..Len(cache) : cache[i].key = key].url

\* imageCache.set(cacheKey, url): a key the Map holds keeps its place
CacheSet(cache, key, url) ==
  IF Cached(cache, key)
  THEN [i \in 1..Len(cache) |->
          IF cache[i].key = key THEN [key |-> key, url |-> url] ELSE cache[i]]
  ELSE Append(cache, [key |-> key, url |-> url])

\* lines 13-19: a hit returns the cached value; a miss deletes the oldest
\* entry when the cache is at its cap, then awaits the Admin API
ImageLookup(q, key) ==
  /\ images.calls[q].at /= "lookup"
  /\ images.n < MaxLookups
  /\ images' =
       IF Cached(images.cache, key)
       THEN [images EXCEPT !.n = @ + 1,
               !.calls[q] = [at |-> "done", key |-> key,
                             result |-> CachedUrl(images.cache, key)]]
       ELSE [images EXCEPT !.n = @ + 1,
               !.cache = IF Len(@) >= IMAGE_CACHE_MAX THEN Tail(@) ELSE @,
               !.calls[q] = [at |-> "lookup", key |-> key, result |-> NoId]]
  /\ UNCHANGED <<store, pc, local, done, started, clients, open, received,
                 pubs, conn, modules>>

\* lines 21-40: the Admin API answers with the image url, with no image, or
\* the call throws; the outcome is cached and returned (null is NoId)
ImageResolve(q, url) ==
  /\ images.calls[q].at = "lookup"
  /\ images' = [images EXCEPT
       !.cache = CacheSet(@, images.calls[q].key, url),
       !.calls[q] = [at |-> "done", key |-> images.calls[q].key, result |-> url]]
  /\ UNCHANGED <<store, pc, local, done, started, clients, open, received,
                 pubs, conn, modules>>

ImageUrls == {"img", NoId}

\* the cache after IMAGE_CACHE_MAX - 1 products have been looked up
NearlyFull == [i \in 1..(IMAGE_CACHE_MAX - 1) |-> [key |-> i, url |-> "img"]]

InitImages ==
  /\ sessions = <<>>
  /\ events = <<>>
  /\ pc = [p \in Procs |-> "idle"]
  /\ local = [p \in Procs |-> Idle]
  /\ done = <<>>
  /\ started = 0
  /\ clients = <<>>
  /\ open = [c \in ClientIds |-> TRUE]
  /\ received = [c \in ClientIds |-> 0]
  /\ pubs = <<>>
  /\ conn = ConnsOf(clients, ClientIds)
  /\ modules = LoadedOnce
  /\ images = [NoImages EXCEPT !.cache = NearlyFull]

NextImages ==
  \/ \E q \in ImageTasks, key \in ImageKeys : ImageLookup(q, key)
  \/ \E q \in ImageTasks, url \in ImageUrls : ImageResolve(q, url)

SpecImages == InitImages /\ [][NextImages]_vars

\* C33: the image cache never holds more than IMAGE_CACHE_MAX entries.
C33_CacheBounded == Len(images.cache) <= IMAGE_CACHE_MAX

----------------------------------------------------------------------------
(* Deleting sessions: the retention purge (cleanup.server.ts) and the       *)
(* compliance webhooks, next to the handlers of one visitor's session.      *)

\* the rows of ids deleted, their events with them
DeleteSessions(ids) ==
  /\ sessions' = [i \in 1..Len(sessions) |->
                    IF i \in ids THEN DeletedRow ELSE sessions[i]]
  /\ events' = CascadeDelete(events, ids)

\* runCleanup, for one shop: cartSession.deleteMany of the shop's sessions
\* created before the cutoff (old: the sessions of that age)
RunCleanup(shopId, old) ==
  LET ids == {i \in old : Exists(sessions, i) /\ sessions[i].shopId = shopId}
  IN /\ ids /= {}
     /\ DeleteSessions(ids)
     /\ UNCHANGED <<pc, local, done, started, hub>>

\* CUSTOMERS_REDACT: cartSession.findMany of the customer's sessions
RedactFind(p, limit, shops, customers) ==
  /\ pc[p] = "idle"
  /\ started < limit
  /\ started' = started + 1
  /\ UNCHANGED <<sessions, events, hub>>
  /\ \E shopId \in shops, customerId \in customers :
       LET ids == {i \in 1..Len(sessions) :
                     /\ sessions[i].shopId = shopId
                     /\ sessions[i].customerId = customerId}
           l == [Idle EXCEPT !.kind = "redact", !.shopId = shopId,
                             !.customerId = customerId, !.ids = ids,
                             !.before = Len(events), !.doneBefore = Len(done)]
       IN IF ids = {} THEN Return(p, l, "ok")
          ELSE /\ pc' = [pc EXCEPT ![p] = "redact_delete"]
               /\ local' = [local EXCEPT ![p] = l]
               /\ UNCHANGED done

\* CUSTOMERS_REDACT: cartSession.deleteMany({ id: { in: ids } })
RedactDelete(p) ==
  /\ pc[p] = "redact_delete"
  /\ DeleteSessions(local[p].ids)
  /\ UNCHANGED <<started, hub>>
  /\ Return(p, local[p], "ok")

\* SHOP_REDACT: shop.delete, the shop's sessions and their events cascade;
\* every later notification of the shop ends at its shop lookup, which
\* is modelled by accepting no further notification
ShopRedact(shopId, limit) ==
  /\ started < limit
  /\ started' = limit
  /\ DeleteSessions({i \in 1..Len(sessions) : sessions[i].shopId = shopId})
  /\ UNCHANGED <<pc, local, done, hub>>

\* which sessions are older than the retention cutoff
AgedSets == {{}, {1}, {1, 2}}

RedactCustomers == {"c1"}

InitOwnership ==
  InitStore(<<ApplyUpdate(SessionWithLog("T1", "tok1", CheckoutLog),
                [checkoutStarted |-> TRUE, customerId |-> "c1"])>>,
            CheckoutLog)

NextOwnership ==
  \/ \E p \in Procs :
       CartsFind(p, CartNotifs, {"T1"}, CartTopics, Tokens, FunnelSnaps, {NoId})
  \/ \E p \in Procs : CartsUpsert(p)
  \/ \E p \in Procs : CartsCreateEvent(p)
  \/ \E p \in Procs : CartsUpdate(p)
  \/ \E p \in Procs : CartsBroadcast(p)
  \/ \E p \in Procs :
       CheckoutsFind(p, CartNotifs, {"T1"}, Tokens, CheckoutSnaps, {NoId})
  \/ \E p \in Procs : CheckoutsUpdate(p)
  \/ \E p \in Procs : CheckoutsCreateStarted(p)
  \/ \E p \in Procs : CheckoutsCreateItem(p)
  \/ \E p \in Procs : CheckoutsBroadcast(p)
  \/ \E p \in Procs :
       OrdersFind(p, CartNotifs, {"T1"}, Tokens, {"999"}, {NoId})
  \/ \E p \in Procs : OrdersUpdate(p)
  \/ \E p \in Procs : OrdersCreateEvent(p)
  \/ \E p \in Procs : OrdersBroadcast(p)
  \/ \E p \in Procs :
       EventsUpsert(p, CartNotifs, {"T1"}, Tokens, CheckoutPixel, {NoId})
  \/ \E p \in Procs : EventsCreate(p)
  \/ \E p \in Procs : EventsAbandon(p)
  \/ \E p \in Procs : EventsUpdate(p)
  \/ \E p \in Procs : EventsBroadcast(p)
  \/ \E old \in AgedSets : RunCleanup("T1", old)
  \/ \E p \in Procs : RedactFind(p, CartNotifs + 1, {"T1"}, RedactCustomers)
  \/ \E p \in Procs : RedactDelete(p)
  \/ ShopRedact("T1", CartNotifs + 1)

SpecOwnership == InitOwnership /\ [][NextOwnership]_vars

\* C34: every event in the log belongs to a session that exists.
C34_EventsHaveSession ==
  \A i \in 1..Len(events) : Exists(sessions, events[i].sessionId)

\* a handler that was in flight when its session was deleted has failed, and
\* a session created afterwards holds events
C34_Witness ==
  /\ \E i \in 1..Len(done) :
       /\ done[i].kind \in {"cart", "checkout", "order", "pixel"}
       /\ done[i].sid /= 0 /\ ~Exists(sessions, done[i].sid)
       /\ done[i].status \in {"error", "unhandled"}
  /\ Len(events) > 0

----------------------------------------------------------------------------
(* Further claims on new carts *)

C36_BelievedNonNegative ==
  /\ \A sid \in SessionIds : \A k \in AllKeys :
       Believed(EventsOf(events, sid), k) >= 0
  /\ \A i \in 1..Len(events) :
       IsCartEvent(events[i]) => events[i].quantity > 0

----------------------------------------------------------------------------
(* Orders of one cart: order notifications with different order ids for the *)
(* token of a session that has started its checkout.                        *)

OrderIds == {"999", "1000"}

InitOrders ==
  InitStore(<<ApplyUpdate(SessionWithLog("T1", "tok1", CheckoutLog),
                [checkoutStarted |-> TRUE])>>,
            CheckoutLog)

NextOrders ==
  \/ \E p \in Procs : OrdersFind(p, MaxNotifs, {"T1"}, Tokens, OrderIds, OrderCustomers)
  \/ \E p \in Procs : OrdersUpdate(p)
  \/ \E p \in Procs : OrdersCreateEvent(p)
  \/ \E p \in Procs : OrdersBroadcast(p)

SpecOrders == InitOrders /\ [][NextOrders]_vars

\* C37: no step changes the orderId of a session on which an order is
\* recorded.
C37_OrderIsFinal ==
  [][\A sid \in SessionIds :
       (sessions[sid].orderPlaced /\ sessions[sid].orderId /= NoId)
         => sessions'[sid].orderId = sessions[sid].orderId]_vars

----------------------------------------------------------------------------
(* Pixel events of a visitor the store has not seen: every event of the     *)
(* funnel, alone or overlapping, starting from an empty store.              *)

InitPixel == InitStore(<<>>, <<>>)

NextPixel ==
  \/ \E p \in Procs :
       EventsUpsert(p, MaxNotifs, {"T1"}, Tokens, FunnelPixel, {NoId})
  \/ \E p \in Procs : EventsCreate(p)
  \/ \E p \in Procs : EventsRecalc(p)
  \/ \E p \in Procs : EventsAbandon(p)
  \/ \E p \in Procs : EventsUpdate(p)
  \/ \E p \in Procs : EventsBroadcast(p)

SpecPixel == InitPixel /\ [][NextPixel]_vars

Succeeded == {i \in 1..Len(done) : done[i].status = "ok"}

\* the notifications were all accepted before any of them had finished
Overlapping == \A i \in 1..Len(done) : done[i].doneBefore = 0

\* C38: overlapping pixel events for a visitor the store had not seen all
\* succeed, with one session created and every event appended.
C38_AllSucceed ==
  (AllIdle /\ Len(done) >= 2 /\ Overlapping)
    => /\ Len(sessions) = 1
       /\ Succeeded = 1..Len(done)
       /\ Len(events) >= Len(done)

----------------------------------------------------------------------------
(* One abandonment episode: page views of a visitor whose session is in     *)
(* Checkout, with no other notification.                                    *)

PageViews == PixelPayloads({"page_view"}, {}, {})

InitAbandon ==
  InitStore(<<ApplyUpdate(SessionWithLog("T1", "tok1", CheckoutLog),
                [checkoutStarted |-> TRUE])>>,
            CheckoutLog)

NextAbandon ==
  \/ \E p \in Procs :
       EventsUpsert(p, MaxNotifs, {"T1"}, Tokens, PageViews, {NoId})
  \/ \E p \in Procs : EventsCreate(p)
  \/ \E p \in Procs : EventsAbandon(p)
  \/ \E p \in Procs : EventsUpdate(p)
  \/ \E p \in Procs : EventsBroadcast(p)

SpecAbandon == InitAbandon /\ [][NextAbandon]_vars

\* C39: the page views of one abandonment episode append at most one
\* checkout_abandoned event.
C39_OneAbandonment ==
  \A sid \in SessionIds : CountType(events, sid, "checkout_abandoned") <= 1

====
